---------------------------- MODULE Spec2Model ----------------------------
(***************************************************************************)
(* A model of the event-driven backtesting core of src/backtester.py:      *)
(* Position, Portfolio, TradingCostModel, RiskManager and BacktestEngine.  *)
(*                                                                         *)
(* Python floats are modelled as exact rationals [n |-> Int, d |-> Nat],   *)
(* kept in lowest terms with d > 0, so that equality of values is equality *)
(* of records.  A division whose denominator is zero is not a rational: it *)
(* is modelled by what Python does with it (see check_order).              *)
(***************************************************************************)
EXTENDS Integers, Sequences, FiniteSets, TLC

(***************************************************************************)
(* Exact rational arithmetic.                                              *)
(***************************************************************************)
Abs(x) == IF x < 0 THEN -x ELSE x

Sign(x) == IF x > 0 THEN 1 ELSE IF x < 0 THEN -1 ELSE 0

Min(a, b) == IF a <= b THEN a ELSE b

RECURSIVE Gcd(_, _)
Gcd(a, b) == IF b = 0 THEN a ELSE Gcd(b, a % b)

\* the rational n/d (d # 0) in lowest terms, the sign carried by n
Rat(n, d) ==
    LET g == Gcd(Abs(n), Abs(d))
        s == IF d < 0 THEN -1 ELSE 1
    IN  [n |-> (s * n) \div g, d |-> Abs(d) \div g]

Q(i) == [n |-> i, d |-> 1]

Zero == Q(0)

RAdd(a, b) == Rat(a.n * b.d + b.n * a.d, a.d * b.d)

RSub(a, b) == Rat(a.n * b.d - b.n * a.d, a.d * b.d)

RMul(a, b) == Rat(a.n * b.n, a.d * b.d)

\* a / b for b # 0
RDiv(a, b) == Rat(a.n * b.d, a.d * b.n)

RNeg(a) == [n |-> -a.n, d |-> a.d]

RAbs(a) == [n |-> Abs(a.n), d |-> a.d]

RLt(a, b) == a.n * b.d < b.n * a.d

RLe(a, b) == a.n * b.d <= b.n * a.d

RMax(a, b) == IF RLt(a, b) THEN b ELSE a

(***************************************************************************)
(* Position (src/backtester.py, class Position).                           *)
(***************************************************************************)
\* Position(symbol): the dataclass defaults
NewPosition ==
    [quantity |-> 0, avg_price |-> Zero, market_value |-> Zero,
     unrealized_pnl |-> Zero, realized_pnl |-> Zero]

\* update_position without the branch of lines 91-93: a full close handled
\* as a reversal, the trade price left as average price
apply_trade_close_as_reversal(pos, tq, tp) ==
    IF pos.quantity = 0
    THEN [pos EXCEPT !.quantity = tq, !.avg_price = tp]
    ELSE IF Sign(tq) = Sign(pos.quantity)
    THEN LET total_cost == RAdd(RMul(Q(pos.quantity), pos.avg_price),
                                RMul(Q(tq), tp))
             q == pos.quantity + tq
         IN  [pos EXCEPT !.quantity = q,
                         !.avg_price = IF q # 0 THEN RDiv(total_cost, Q(q))
                                                ELSE Zero]
    ELSE IF Abs(tq) >= Abs(pos.quantity)
    THEN [pos EXCEPT !.realized_pnl =
                         RAdd(pos.realized_pnl,
                              RMul(RSub(tp, pos.avg_price), Q(pos.quantity))),
                     !.quantity = tq + pos.quantity,
                     !.avg_price = tp]
    ELSE [pos EXCEPT !.realized_pnl =
                         RAdd(pos.realized_pnl,
                              RMul(RSub(tp, pos.avg_price), Q(Abs(tq)))),
                     !.quantity = pos.quantity + tq]

\* update_position with a flat position taken through the adding branch:
\* the cost of the old quantity 0 averaged with the new fill
apply_trade_open_by_averaging(pos, tq, tp) ==
    IF pos.quantity = 0 \/ Sign(tq) = Sign(pos.quantity)
    THEN LET total_cost == RAdd(pos.avg_price, RMul(Q(tq), tp))
             q == pos.quantity + tq
         IN  [pos EXCEPT !.quantity = q,
                         !.avg_price = IF q # 0 THEN RDiv(total_cost, Q(q))
                                                ELSE Zero]
    ELSE IF Abs(tq) >= Abs(pos.quantity)
    THEN LET realized == RAdd(pos.realized_pnl,
                              RMul(RSub(tp, pos.avg_price), Q(pos.quantity)))
             remaining_quantity == tq + pos.quantity
         IN  IF remaining_quantity # 0
             THEN [pos EXCEPT !.realized_pnl = realized,
                              !.quantity = remaining_quantity,
                              !.avg_price = tp]
             ELSE [pos EXCEPT !.realized_pnl = realized,
                              !.quantity = 0]
    ELSE [pos EXCEPT !.realized_pnl =
                         RAdd(pos.realized_pnl,
                              RMul(RSub(tp, pos.avg_price), Q(Abs(tq)))),
                     !.quantity = pos.quantity + tq]

\* update_position with a reversal that leaves the average price of the
\* position it has closed
apply_trade_reversal_keeps_average(pos, tq, tp) ==
    IF pos.quantity = 0
    THEN [pos EXCEPT !.quantity = tq, !.avg_price = tp]
    ELSE IF Sign(tq) = Sign(pos.quantity)
    THEN LET total_cost == RAdd(RMul(Q(pos.quantity), pos.avg_price),
                                RMul(Q(tq), tp))
             q == pos.quantity + tq
         IN  [pos EXCEPT !.quantity = q,
                         !.avg_price = IF q # 0 THEN RDiv(total_cost, Q(q))
                                                ELSE Zero]
    ELSE IF Abs(tq) >= Abs(pos.quantity)
    THEN LET realized == RAdd(pos.realized_pnl,
                              RMul(RSub(tp, pos.avg_price), Q(pos.quantity)))
             remaining_quantity == tq + pos.quantity
         IN  IF remaining_quantity # 0
             THEN [pos EXCEPT !.realized_pnl = realized,
                              !.quantity = remaining_quantity]
             ELSE [pos EXCEPT !.realized_pnl = realized,
                              !.quantity = 0,
                              !.avg_price = Zero]
    ELSE [pos EXCEPT !.realized_pnl =
                         RAdd(pos.realized_pnl,
                              RMul(RSub(tp, pos.avg_price), Q(Abs(tq)))),
                     !.quantity = pos.quantity + tq]

\* update_position with the adding branch taking the plain mean of the old
\* average price and the trade price
apply_trade_add_unweighted(pos, tq, tp) ==
    IF pos.quantity = 0
    THEN [pos EXCEPT !.quantity = tq, !.avg_price = tp]
    ELSE IF Sign(tq) = Sign(pos.quantity)
    THEN LET total_cost == RAdd(RMul(Q(pos.quantity), pos.avg_price),
                                RMul(Q(tq), tp))
             q == pos.quantity + tq
         IN  [pos EXCEPT !.quantity = q,
                         !.avg_price = RDiv(RAdd(pos.avg_price, tp), Q(2))]
    ELSE IF Abs(tq) >= Abs(pos.quantity)
    THEN LET realized == RAdd(pos.realized_pnl,
                              RMul(RSub(tp, pos.avg_price), Q(pos.quantity)))
             remaining_quantity == tq + pos.quantity
         IN  IF remaining_quantity # 0
             THEN [pos EXCEPT !.realized_pnl = realized,
                              !.quantity = remaining_quantity,
                              !.avg_price = tp]
             ELSE [pos EXCEPT !.realized_pnl = realized,
                              !.quantity = 0,
                              !.avg_price = Zero]
    ELSE [pos EXCEPT !.realized_pnl =
                         RAdd(pos.realized_pnl,
                              RMul(RSub(tp, pos.avg_price), Q(Abs(tq)))),
                     !.quantity = pos.quantity + tq]

\* the quantity, average price and realized P&L after the branch of
\* update_position that applies (lines 71-97)
apply_trade(pos, tq, tp) ==
    IF pos.quantity = 0
    THEN [pos EXCEPT !.quantity = tq, !.avg_price = tp]
    ELSE IF Sign(tq) = Sign(pos.quantity)
    THEN LET total_cost == RAdd(RMul(Q(pos.quantity), pos.avg_price),
                                RMul(Q(tq), tp))
             q == pos.quantity + tq
         IN  [pos EXCEPT !.quantity = q,
                         !.avg_price = IF q # 0 THEN RDiv(total_cost, Q(q))
                                                ELSE Zero]
    ELSE IF Abs(tq) >= Abs(pos.quantity)
    THEN LET realized == RAdd(pos.realized_pnl,
                              RMul(RSub(tp, pos.avg_price), Q(pos.quantity)))
             remaining_quantity == tq + pos.quantity
         IN  IF remaining_quantity # 0
             THEN [pos EXCEPT !.realized_pnl = realized,
                              !.quantity = remaining_quantity,
                              !.avg_price = tp]
             ELSE [pos EXCEPT !.realized_pnl = realized,
                              !.quantity = 0,
                              !.avg_price = Zero]
    ELSE [pos EXCEPT !.realized_pnl =
                         RAdd(pos.realized_pnl,
                              RMul(RSub(tp, pos.avg_price), Q(Abs(tq)))),
                     !.quantity = pos.quantity + tq]

\* update_position with the position valued at its average price instead of
\* the current price
update_position_marks_at_average(pos, tq, tp, cp) ==
    LET p == apply_trade(pos, tq, tp)
    IN  [p EXCEPT !.market_value = RMul(Q(p.quantity), p.avg_price),
                  !.unrealized_pnl =
                      IF p.quantity # 0
                      THEN RMul(RSub(cp, p.avg_price), Q(p.quantity))
                      ELSE p.unrealized_pnl]

\* Position.update_position(trade_quantity, trade_price, current_price)
update_position(pos, tq, tp, cp) ==
    LET p == apply_trade(pos, tq, tp)
    IN  [p EXCEPT !.market_value = RMul(Q(p.quantity), cp),
                  !.unrealized_pnl =
                      IF p.quantity # 0
                      THEN RMul(RSub(cp, p.avg_price), Q(p.quantity))
                      ELSE p.unrealized_pnl]

(***************************************************************************)
(* Order, Portfolio, TradingCostModel, RiskManager.                        *)
(***************************************************************************)
\* Optional[float] = None
None == [n |-> 0, d |-> 0]

\* Optional[datetime] = None (timestamps are positive)
NoTime == 0

\* an Order as the strategy constructs it from a template
\* [symbol, side, order_type, quantity, price]: the dataclass defaults
NewOrder(t) ==
    [symbol |-> t.symbol, side |-> t.side, order_type |-> t.order_type,
     quantity |-> t.quantity, price |-> t.price,
     timestamp |-> NoTime, status |-> "PENDING",
     filled_quantity |-> Zero, filled_price |-> Zero,
     commission |-> Zero, slippage |-> Zero]

\* what the engine never writes of an Order
TemplateOf(o) ==
    [symbol |-> o.symbol, side |-> o.side, order_type |-> o.order_type,
     quantity |-> o.quantity, price |-> o.price]

\* Portfolio(initial_capital, cash = initial_capital, leverage)
NewPortfolio(initial_capital, leverage) ==
    [initial_capital |-> initial_capital, cash |-> initial_capital,
     positions |-> <<>>, total_value |-> Zero, margin_used |-> Zero,
     margin_available |-> Zero, leverage |-> leverage]

\* Portfolio.get_position: the position it returns ...
get_position(positions, symbol) ==
    IF symbol \in DOMAIN positions THEN positions[symbol] ELSE NewPosition

\* ... and the mapping it leaves, a zero position created on first access
with_position(positions, symbol) ==
    IF symbol \in DOMAIN positions THEN positions
    ELSE positions @@ (symbol :> NewPosition)

RECURSIVE SumOver(_, _)
SumOver(f, S) ==
    IF S = {} THEN Zero
    ELSE LET x == CHOOSE y \in S : TRUE
         IN  RAdd(f[x], SumOver(f, S \ {x}))

\* the positions update_portfolio visits: quantity # 0 and a known price
Visited(positions, prices) ==
    {s \in DOMAIN positions : positions[s].quantity # 0 /\ prices[s] # None}

\* update_portfolio adding the signed market values, a short position
\* counted as a negative value
update_portfolio_signed_sum(pf, prices) ==
    LET vis == Visited(pf.positions, prices)
        ps  == [s \in DOMAIN pf.positions |->
                  IF s \in vis
                  THEN update_position(pf.positions[s], 0, Zero, prices[s])
                  ELSE pf.positions[s]]
        total_market_value == SumOver([s \in vis |-> ps[s].market_value], vis)
    IN  [pf EXCEPT !.positions = ps,
                   !.total_value = RAdd(pf.cash, total_market_value),
                   !.margin_used = RDiv(total_market_value, pf.leverage),
                   !.margin_available =
                       RSub(pf.cash, RDiv(total_market_value, pf.leverage))]

\* Portfolio.update_portfolio(prices): the portfolio it leaves
update_portfolio(pf, prices) ==
    LET vis == Visited(pf.positions, prices)
        ps  == [s \in DOMAIN pf.positions |->
                  IF s \in vis
                  THEN update_position(pf.positions[s], 0, Zero, prices[s])
                  ELSE pf.positions[s]]
        total_market_value == SumOver([s \in vis |-> RAbs(ps[s].market_value)], vis)
    IN  [pf EXCEPT !.positions = ps,
                   !.total_value = RAdd(pf.cash, total_market_value),
                   !.margin_used = RDiv(total_market_value, pf.leverage),
                   !.margin_available =
                       RSub(pf.cash, RDiv(total_market_value, pf.leverage))]

\* Portfolio.update_portfolio(prices): the dictionary it returns, read off the
\* portfolio it has left
portfolio_metrics(pf, prices) ==
    LET vis == Visited(pf.positions, prices)
    IN  [total_value |-> pf.total_value,
         cash |-> pf.cash,
         market_value |->
             SumOver([s \in vis |-> RAbs(pf.positions[s].market_value)], vis),
         unrealized_pnl |->
             SumOver([s \in vis |-> pf.positions[s].unrealized_pnl], vis),
         realized_pnl |->
             SumOver([s \in vis |-> pf.positions[s].realized_pnl], vis),
         margin_used |-> pf.margin_used,
         margin_available |-> pf.margin_available]

\* market_info = {'avg_volume': 1000000} in execute_order
AvgVolume == 1000000

\* TradingCostModel.calculate_costs(order, market_data), the order carrying
\* its quantity and the filled_price execute_order has just set
calculate_costs(cm, quantity, filled_price) ==
    LET commission == RMax(cm.commission_min,
                           RMul(RMul(Q(quantity), filled_price), cm.commission_rate))
        base_slippage == RMul(filled_price, cm.slippage_rate)
        impact == RMul(RMul(Rat(quantity, AvgVolume), cm.impact_coeff),
                       filled_price)
    IN  [commission |-> commission, slippage |-> RAdd(base_slippage, impact)]

\* RiskManager(): peak_value = 0.0, current_drawdown = 0.0
NewRiskManager(max_position_size, max_drawdown) ==
    [max_position_size |-> max_position_size, max_drawdown |-> max_drawdown,
     peak_value |-> Zero, current_drawdown |-> Zero]

\* position_value / portfolio.total_value > max_position_size (lines 207-210).
\* With total_value = 0 the quotient is no number: a Python float raises
\* ZeroDivisionError; a numpy.float64 (the prices of a table whose columns
\* are all numeric) gives inf, which exceeds the limit, or nan for 0/0,
\* which does not.
weight_check(position_value, total_value, max_position_size, np) ==
    IF total_value.n = 0
    THEN IF np THEN (IF position_value.n # 0 THEN "exceeds" ELSE "within")
               ELSE "raise"
    ELSE IF RLt(max_position_size, RDiv(position_value, total_value))
         THEN "exceeds" ELSE "within"

\* lines 218-221 with the peak set to the total value at every call
track_drawdown_peak_follows_value(rm, total_value) ==
    LET peak == total_value
    IN  IF peak.n = 0
        THEN [raised |-> TRUE, rm |-> [rm EXCEPT !.peak_value = peak]]
        ELSE [raised |-> FALSE,
              rm |-> [rm EXCEPT !.peak_value = peak,
                                !.current_drawdown =
                                    RDiv(RSub(peak, total_value), peak)]]

\* lines 218-221, shared by check_order and update_risk_metrics: the risk
\* manager with peak_value and current_drawdown updated; peak_value = 0 makes
\* the division raise ZeroDivisionError (raised = TRUE, nothing assigned to
\* current_drawdown)
track_drawdown(rm, total_value) ==
    LET peak == IF RLt(rm.peak_value, total_value) THEN total_value
                ELSE rm.peak_value
    IN  IF peak.n = 0
        THEN [raised |-> TRUE, rm |-> [rm EXCEPT !.peak_value = peak]]
        ELSE [raised |-> FALSE,
              rm |-> [rm EXCEPT !.peak_value = peak,
                                !.current_drawdown =
                                    RDiv(RSub(peak, total_value), peak)]]

\* check_order with the weight taken on the order's quantity alone, not on
\* the quantity the position would have after the trade
check_order_order_only(rm, order, pf, prices, np) ==
    LET position_value == RAbs(RMul(Q(order.quantity), prices[order.symbol]))
        w == weight_check(position_value, pf.total_value, rm.max_position_size, np)
        t == track_drawdown(rm, pf.total_value)
    IN  IF w = "raise" THEN [out |-> "raise", rm |-> rm]
        ELSE IF w = "exceeds" THEN [out |-> "rejected", rm |-> rm]
        ELSE IF pf.margin_available.n < 0 THEN [out |-> "rejected", rm |-> rm]
        ELSE IF t.raised THEN [out |-> "raise", rm |-> t.rm]
        ELSE IF RLt(rm.max_drawdown, t.rm.current_drawdown)
             THEN [out |-> "rejected", rm |-> t.rm]
             ELSE [out |-> "approved", rm |-> t.rm]

\* check_order with the drawdown test applied only to orders that open or
\* enlarge a position
check_order_reducing_exempt(rm, order, pf, prices, np) ==
    LET position == get_position(pf.positions, order.symbol)
        new_quantity == IF order.side = "BUY"
                        THEN position.quantity + order.quantity
                        ELSE position.quantity - order.quantity
        position_value == RAbs(RMul(Q(new_quantity), prices[order.symbol]))
        w == weight_check(position_value, pf.total_value, rm.max_position_size, np)
        t == track_drawdown(rm, pf.total_value)
    IN  IF w = "raise" THEN [out |-> "raise", rm |-> rm]
        ELSE IF w = "exceeds" THEN [out |-> "rejected", rm |-> rm]
        ELSE IF pf.margin_available.n < 0 THEN [out |-> "rejected", rm |-> rm]
        ELSE IF t.raised THEN [out |-> "raise", rm |-> t.rm]
        ELSE IF /\ RLt(rm.max_drawdown, t.rm.current_drawdown)
                /\ Abs(new_quantity) > Abs(position.quantity)
             THEN [out |-> "rejected", rm |-> t.rm]
             ELSE [out |-> "approved", rm |-> t.rm]

\* RiskManager.check_order(order, portfolio, market_data):
\* [out |-> "approved" | "rejected" | "raise", rm |-> the risk manager after]
check_order(rm, order, pf, prices, np) ==
    LET position == get_position(pf.positions, order.symbol)
        new_quantity == IF order.side = "BUY"
                        THEN position.quantity + order.quantity
                        ELSE position.quantity - order.quantity
        position_value == RAbs(RMul(Q(new_quantity), prices[order.symbol]))
        w == weight_check(position_value, pf.total_value, rm.max_position_size, np)
        t == track_drawdown(rm, pf.total_value)
    IN  IF w = "raise" THEN [out |-> "raise", rm |-> rm]
        ELSE IF w = "exceeds" THEN [out |-> "rejected", rm |-> rm]
        ELSE IF pf.margin_available.n < 0 THEN [out |-> "rejected", rm |-> rm]
        ELSE IF t.raised THEN [out |-> "raise", rm |-> t.rm]
        ELSE IF RLt(rm.max_drawdown, t.rm.current_drawdown)
             THEN [out |-> "rejected", rm |-> t.rm]
             ELSE [out |-> "approved", rm |-> t.rm]

\* portfolio_volatility = 0.02
PortfolioVolatility == Rat(2, 100)

\* abs(stats.norm.ppf(1 - 0.95)) = 1.6448..., to three decimals
VarMultiplier == Rat(1645, 1000)

\* RiskManager.estimate_var(portfolio)
estimate_var(pf) == RMul(RMul(pf.total_value, PortfolioVolatility), VarMultiplier)

\* RiskManager.update_risk_metrics(portfolio): the dictionary it returns,
\* read off the risk manager track_drawdown has left
risk_metrics(rm, pf) ==
    [peak_value |-> rm.peak_value, current_drawdown |-> rm.current_drawdown,
     var_estimate |-> estimate_var(pf)]

(***************************************************************************)
(* BacktestEngine.execute_order.                                           *)
(***************************************************************************)
\* lines 316-335 with the two limit comparisons the other way round
fill_price_of_limits_swapped(order, current_price) ==
    IF order.order_type = "MARKET" THEN current_price
    ELSE IF order.order_type = "LIMIT"
    THEN IF order.price = None THEN None
         ELSE IF order.side = "BUY"
         THEN (IF RLe(order.price, current_price) THEN order.price ELSE None)
         ELSE (IF RLe(current_price, order.price) THEN order.price ELSE None)
    ELSE current_price

\* lines 316-335 with the orders that are neither MARKET nor LIMIT filled at
\* their own price
fill_price_of_stop_at_own_price(order, current_price) ==
    IF order.order_type = "MARKET" THEN current_price
    ELSE IF order.order_type = "LIMIT"
    THEN IF order.price = None THEN None
         ELSE IF order.side = "BUY"
         THEN (IF RLe(current_price, order.price) THEN order.price ELSE None)
         ELSE (IF RLe(order.price, current_price) THEN order.price ELSE None)
    ELSE order.price

\* lines 316-335: the fill price, or None when the order does not fill
fill_price_of(order, current_price) ==
    IF order.order_type = "MARKET" THEN current_price
    ELSE IF order.order_type = "LIMIT"
    THEN IF order.price = None THEN None
         ELSE IF order.side = "BUY"
         THEN (IF RLe(current_price, order.price) THEN order.price ELSE None)
         ELSE (IF RLe(order.price, current_price) THEN order.price ELSE None)
    ELSE current_price

\* lines 347-394 with the aggregates of the portfolio brought up to date by
\* the fill: total value, margin used and margin available recomputed from
\* the new cash and the new market value of the position
apply_fill_updates_aggregates(order, fill_price, current_price, timestamp, pf, cm, trades) ==
    LET costs == calculate_costs(cm, order.quantity, fill_price)
        trade_quantity == IF order.side = "BUY" THEN order.quantity
                          ELSE -order.quantity
        effective_price == IF order.side = "BUY"
                           THEN RAdd(fill_price, costs.slippage)
                           ELSE RSub(fill_price, costs.slippage)
        position == update_position(get_position(pf.positions, order.symbol),
                                    trade_quantity, effective_price, current_price)
        trade_value == RMul(Q(order.quantity), effective_price)
        total_cost == RAdd(trade_value, costs.commission)
        cash == IF order.side = "BUY" THEN RSub(pf.cash, total_cost)
                ELSE RAdd(pf.cash, RSub(trade_value, costs.commission))
        trade_record ==
            [timestamp |-> timestamp, symbol |-> order.symbol,
             side |-> order.side, quantity |-> order.quantity,
             price |-> effective_price, commission |-> costs.commission,
             slippage |-> costs.slippage, total_cost |-> total_cost,
             cash_after |-> cash]
    IN  [order |-> [order EXCEPT !.filled_price = fill_price,
                                 !.filled_quantity = Q(order.quantity),
                                 !.commission = costs.commission,
                                 !.slippage = costs.slippage,
                                 !.status = "FILLED",
                                 !.timestamp = timestamp],
         pf |-> [pf EXCEPT !.positions =
                               [with_position(pf.positions, order.symbol)
                                   EXCEPT ![order.symbol] = position],
                           !.cash = cash,
                           !.total_value =
                               RAdd(cash, RAbs(position.market_value)),
                           !.margin_used =
                               RDiv(RAbs(position.market_value), pf.leverage),
                           !.margin_available =
                               RSub(cash, RDiv(RAbs(position.market_value),
                                               pf.leverage))],
         trades |-> Append(trades, trade_record)]

\* lines 347-394 with the commission of a sell added to the proceeds
apply_fill_sell_earns_commission(order, fill_price, current_price, timestamp, pf, cm, trades) ==
    LET costs == calculate_costs(cm, order.quantity, fill_price)
        trade_quantity == IF order.side = "BUY" THEN order.quantity
                          ELSE -order.quantity
        effective_price == IF order.side = "BUY"
                           THEN RAdd(fill_price, costs.slippage)
                           ELSE RSub(fill_price, costs.slippage)
        position == update_position(get_position(pf.positions, order.symbol),
                                    trade_quantity, effective_price, current_price)
        trade_value == RMul(Q(order.quantity), effective_price)
        total_cost == RAdd(trade_value, costs.commission)
        cash == IF order.side = "BUY" THEN RSub(pf.cash, total_cost)
                ELSE RAdd(pf.cash, RAdd(trade_value, costs.commission))
        trade_record ==
            [timestamp |-> timestamp, symbol |-> order.symbol,
             side |-> order.side, quantity |-> order.quantity,
             price |-> effective_price, commission |-> costs.commission,
             slippage |-> costs.slippage, total_cost |-> total_cost,
             cash_after |-> cash]
    IN  [order |-> [order EXCEPT !.filled_price = fill_price,
                                 !.filled_quantity = Q(order.quantity),
                                 !.commission = costs.commission,
                                 !.slippage = costs.slippage,
                                 !.status = "FILLED",
                                 !.timestamp = timestamp],
         pf |-> [pf EXCEPT !.positions =
                               [with_position(pf.positions, order.symbol)
                                   EXCEPT ![order.symbol] = position],
                           !.cash = cash],
         trades |-> Append(trades, trade_record)]

\* lines 347-394 with the slippage taken off the price of a buy and added
\* to the price of a sell
apply_fill_slippage_in_favour(order, fill_price, current_price, timestamp, pf, cm, trades) ==
    LET costs == calculate_costs(cm, order.quantity, fill_price)
        trade_quantity == IF order.side = "BUY" THEN order.quantity
                          ELSE -order.quantity
        effective_price == IF order.side = "BUY"
                           THEN RSub(fill_price, costs.slippage)
                           ELSE RAdd(fill_price, costs.slippage)
        position == update_position(get_position(pf.positions, order.symbol),
                                    trade_quantity, effective_price, current_price)
        trade_value == RMul(Q(order.quantity), effective_price)
        total_cost == RAdd(trade_value, costs.commission)
        cash == IF order.side = "BUY" THEN RSub(pf.cash, total_cost)
                ELSE RAdd(pf.cash, RSub(trade_value, costs.commission))
        trade_record ==
            [timestamp |-> timestamp, symbol |-> order.symbol,
             side |-> order.side, quantity |-> order.quantity,
             price |-> effective_price, commission |-> costs.commission,
             slippage |-> costs.slippage, total_cost |-> total_cost,
             cash_after |-> cash]
    IN  [order |-> [order EXCEPT !.filled_price = fill_price,
                                 !.filled_quantity = Q(order.quantity),
                                 !.commission = costs.commission,
                                 !.slippage = costs.slippage,
                                 !.status = "FILLED",
                                 !.timestamp = timestamp],
         pf |-> [pf EXCEPT !.positions =
                               [with_position(pf.positions, order.symbol)
                                   EXCEPT ![order.symbol] = position],
                           !.cash = cash],
         trades |-> Append(trades, trade_record)]

\* lines 347-394, the order approved: the order, the portfolio and the trade
\* log after the fill
apply_fill(order, fill_price, current_price, timestamp, pf, cm, trades) ==
    LET costs == calculate_costs(cm, order.quantity, fill_price)
        trade_quantity == IF order.side = "BUY" THEN order.quantity
                          ELSE -order.quantity
        effective_price == IF order.side = "BUY"
                           THEN RAdd(fill_price, costs.slippage)
                           ELSE RSub(fill_price, costs.slippage)
        position == update_position(get_position(pf.positions, order.symbol),
                                    trade_quantity, effective_price, current_price)
        trade_value == RMul(Q(order.quantity), effective_price)
        total_cost == RAdd(trade_value, costs.commission)
        cash == IF order.side = "BUY" THEN RSub(pf.cash, total_cost)
                ELSE RAdd(pf.cash, RSub(trade_value, costs.commission))
        trade_record ==
            [timestamp |-> timestamp, symbol |-> order.symbol,
             side |-> order.side, quantity |-> order.quantity,
             price |-> effective_price, commission |-> costs.commission,
             slippage |-> costs.slippage, total_cost |-> total_cost,
             cash_after |-> cash]
    IN  [order |-> [order EXCEPT !.filled_price = fill_price,
                                 !.filled_quantity = Q(order.quantity),
                                 !.commission = costs.commission,
                                 !.slippage = costs.slippage,
                                 !.status = "FILLED",
                                 !.timestamp = timestamp],
         pf |-> [pf EXCEPT !.positions =
                               [with_position(pf.positions, order.symbol)
                                   EXCEPT ![order.symbol] = position],
                           !.cash = cash],
         trades |-> Append(trades, trade_record)]

\* the order a risk rejection leaves (line 344)
reject_order(order) == [order EXCEPT !.status = "REJECTED"]

\* BacktestEngine.execute_order(order, timestamp) on the engine state
\* e = [current_prices, portfolio, risk_manager, cost_model, trades, np]:
\* ret is "True", "False" or "raise" (ZeroDivisionError out of check_order);
\* how says which return was taken
execute_order(order, timestamp, e) ==
    LET same == [order |-> order, pf |-> e.portfolio, rm |-> e.risk_manager,
                 trades |-> e.trades]
        current_price == e.current_prices[order.symbol]
        fill_price == fill_price_of(order, current_price)
        seen == [e.portfolio EXCEPT !.positions =
                                        with_position(@, order.symbol)]
        chk == check_order(e.risk_manager, order, seen, e.current_prices, e.np)
        f == apply_fill(order, fill_price, current_price, timestamp, seen,
                        e.cost_model, e.trades)
    IN  IF e.current_prices[order.symbol] = None
        THEN same @@ [ret |-> "False", how |-> "no_price"]
        ELSE IF fill_price = None
        THEN same @@ [ret |-> "False", how |-> "unfilled"]
        ELSE IF chk.out = "raise"
        THEN [same EXCEPT !.pf = seen, !.rm = chk.rm]
                 @@ [ret |-> "raise", how |-> "raise"]
        ELSE IF chk.out = "rejected"
        THEN [same EXCEPT !.order = reject_order(order), !.pf = seen,
                          !.rm = chk.rm]
                 @@ [ret |-> "False", how |-> "rejected"]
        ELSE [order |-> f.order, pf |-> f.pf, rm |-> chk.rm,
              trades |-> f.trades, ret |-> "True", how |-> "filled"]

(***************************************************************************)
(* BacktestEngine: the inputs of the model.                                *)
(***************************************************************************)
\* "default" is the symbol of a 'close' column, "AAA" that of 'AAA_close';
\* no table has a column for "ZZZ"
Symbols == {"default", "AAA", "ZZZ"}

Row(t, d, a) ==
    [timestamp |-> t,
     close |-> [s \in Symbols |-> IF s = "default" THEN d
                                  ELSE IF s = "AAA" THEN a ELSE None]]

\* rows with the labels of the DataFrame's index
Indexed(rows, labels) ==
    [k \in 1..Len(rows) |->
        [timestamp |-> rows[k].timestamp, close |-> rows[k].close,
         label |-> labels[k]]]

\* rows under the default index 0, 1, 2, ...
RangeIndex(rows) == Indexed(rows, [k \in 1..Len(rows) |-> k - 1])

\* The tables load_data is given, rows in the order of the caller's table.
\* np: every column is numeric, so that DataFrame.iterrows yields float64
\* rows and prices are numpy.float64; otherwise (a datetime 'timestamp'
\* column) the rows are object rows and prices are Python floats.
TableA ==
    [np |-> FALSE,
     rows |-> RangeIndex(<< Row(2, Q(8), None), Row(1, Q(10), None),
                            Row(3, Q(10), None) >>)]

TableB ==
    [np |-> TRUE,
     rows |-> RangeIndex(<< Row(1, Q(10), Q(4)), Row(2, Q(10), Q(5)),
                            Row(3, Q(12), Q(5)) >>)]

TableEmpty == [np |-> FALSE, rows |-> << >>]

\* Two tables whose index repeats a label, as pd.concat of a table of two
\* rows and a table of one row leaves it: sorted by timestamp, the labels
\* are 0, 0, 1 in TableDup and 0, 1, 0 in TableGap.
TableDup ==
    [np |-> FALSE,
     rows |-> Indexed(<< Row(1, Q(10), None), Row(3, Q(10), None),
                         Row(2, Q(8), None) >>, <<0, 1, 0>>)]

TableGap ==
    [np |-> FALSE,
     rows |-> Indexed(<< Row(1, Q(10), None), Row(2, Q(8), None),
                         Row(3, Q(10), None) >>, <<0, 1, 0>>)]

\* a table whose price halves after the second row
TableFall ==
    [np |-> FALSE,
     rows |-> RangeIndex(<< Row(1, Q(10), None), Row(2, Q(10), None),
                            Row(3, Q(5), None), Row(4, Q(5), None) >>)]

\* BacktestEngine(initial_capital, commission_rate, slippage_rate, leverage),
\* its cost model's commission_min and impact_coeff and its risk manager's
\* limits as the caller has left them: without trading costs ...
EngineFree ==
    [initial_capital |-> Q(1000), leverage |-> Q(1),
     cost_model |-> [commission_rate |-> Zero, commission_min |-> Zero,
                     slippage_rate |-> Zero, impact_coeff |-> Zero],
     max_position_size |-> Rat(1, 10), max_drawdown |-> Rat(1, 5)]

\* ... and with them
EngineCosts ==
    [initial_capital |-> Q(1000), leverage |-> Q(1),
     cost_model |-> [commission_rate |-> Rat(1, 100), commission_min |-> Q(1),
                     slippage_rate |-> Rat(1, 100), impact_coeff |-> Q(1000)],
     max_position_size |-> Rat(1, 10), max_drawdown |-> Rat(1, 5)]

\* ... and without costs, the caller having set risk_manager.max_position_size
\* to 0.5 and risk_manager.max_drawdown to 0.05
EngineTight ==
    [initial_capital |-> Q(1000), leverage |-> Q(1),
     cost_model |-> [commission_rate |-> Zero, commission_min |-> Zero,
                     slippage_rate |-> Zero, impact_coeff |-> Zero],
     max_position_size |-> Rat(1, 2), max_drawdown |-> Rat(1, 20)]

\* ... and without costs, the caller having set risk_manager.max_position_size
\* to 1.0
EngineWhole ==
    [initial_capital |-> Q(1000), leverage |-> Q(1),
     cost_model |-> [commission_rate |-> Zero, commission_min |-> Zero,
                     slippage_rate |-> Zero, impact_coeff |-> Zero],
     max_position_size |-> Q(1), max_drawdown |-> Rat(1, 5)]

Tmpl(sym, side, type, q, price) ==
    [symbol |-> sym, side |-> side, order_type |-> type, quantity |-> q,
     price |-> price]

\* the orders a strategy may construct: market orders on the one instrument,
MarketMenu ==
    { Tmpl("default", "BUY", "MARKET", 5, None),
      Tmpl("default", "SELL", "MARKET", 5, None),
      Tmpl("default", "SELL", "MARKET", 10, None),
      Tmpl("default", "BUY", "MARKET", 20, None) }

\* the other order kinds and an instrument without a price,
KindsMenu ==
    { Tmpl("default", "BUY", "LIMIT", 5, Q(9)),
      Tmpl("default", "SELL", "LIMIT", 5, Q(9)),
      Tmpl("default", "BUY", "LIMIT", 5, None),
      Tmpl("default", "SELL", "STOP", 5, Q(9)),
      Tmpl("default", "BUY", "STOP_LIMIT", 5, Q(9)),
      Tmpl("ZZZ", "BUY", "MARKET", 5, None) }

\* and two instruments
MultiMenu ==
    { Tmpl("default", "BUY", "MARKET", 5, None),
      Tmpl("default", "SELL", "MARKET", 10, None),
      Tmpl("AAA", "BUY", "MARKET", 10, None) }

\* and a position large enough to lose more than the drawdown limit
FallMenu ==
    { Tmpl("default", "BUY", "MARKET", 20, None),
      Tmpl("default", "SELL", "MARKET", 20, None),
      Tmpl("default", "SELL", "MARKET", 5, None) }

\* and buys of two instruments, each within the position limit of EngineWhole
WholeMenu ==
    { Tmpl("default", "BUY", "MARKET", 60, None),
      Tmpl("AAA", "BUY", "MARKET", 120, None) }

MaxLoads == 1

MaxRuns == 2

MaxSignals == 2

MaxOrders == 3

MaxRunOrders == 2

MaxRaises == 3

\* start_date and end_date of run_backtest; NoTime is None
AllDates == { <<NoTime, NoTime>> }

SomeDates == { <<NoTime, NoTime>>, <<2, NoTime>>, <<NoTime, 2>>, <<4, NoTime>> }

\* The inputs of one behaviour: the engine constructed, the tables it may
\* be given, the date ranges and number of run_backtest calls, the orders
\* its strategy may construct, how many it may return in all and how often
\* it may raise, and the engines constructed with the same parameters.
Scenario(e, tbls, dates, nruns, menu, norders, nraises, nengines) ==
    [engine |-> e, tables |-> tbls, dates |-> dates, runs |-> nruns,
     menu |-> menu, orders |-> norders, raises |-> nraises,
     engines |-> nengines]

\* the engines constructed in one behaviour
MaxEngines == 2

Scenarios ==
    { Scenario(EngineFree, {TableA, TableEmpty}, SomeDates, MaxRuns,
               {Tmpl("default", "BUY", "MARKET", 5, None)}, MaxRunOrders,
               MaxRaises, 1),
      Scenario(EngineFree, {TableA}, AllDates, 1, MarketMenu, MaxOrders, 0, 1),
      Scenario(EngineCosts, {TableA}, AllDates, 1, MarketMenu, MaxOrders, 0, 1),
      Scenario(EngineCosts, {TableA}, AllDates, 1, KindsMenu, MaxOrders, 0, 1),
      Scenario(EngineFree, {TableB}, AllDates, 1, MultiMenu, MaxOrders, 0, 1),
      Scenario(EngineFree, {TableA, TableB}, AllDates, 1,
               {Tmpl("default", "BUY", "MARKET", 5, None)}, MaxRunOrders,
               MaxRunOrders, MaxEngines),
      Scenario(EngineFree, {TableDup, TableGap}, AllDates, 1,
               {Tmpl("default", "BUY", "MARKET", 5, None)}, 1, 0, 1),
      Scenario(EngineTight, {TableFall}, AllDates, 1, FallMenu, MaxOrders,
               0, 1),
      Scenario(EngineWhole, {TableB}, AllDates, 1, WholeMenu, MaxRunOrders,
               0, 1) }

(***************************************************************************)
(* The stand-alone Position of SpecPos.                                    *)
(***************************************************************************)
VARIABLES
    ppos,       \* the Position under test
    pn,         \* the number of update_position calls so far
    plast,      \* the last call: its arguments and the position before it
    pref        \* the reference sum of per-fill realized amounts

pvars == <<ppos, pn, plast, pref>>

NoCall == [tq |-> 0, tp |-> Zero, cp |-> Zero, before |-> NewPosition]

PosAtRest ==
    /\ ppos = NewPosition
    /\ pn = 0
    /\ plast = NoCall
    /\ pref = Zero

(***************************************************************************)
(* The stand-alone risk monitor of src/risk_manager.py (SpecStop).  A      *)
(* dictionary over symbols is a function on MonitorSymbols; a symbol that  *)
(* is not a key holds None (a weight, a stop), NoTime (an entry time) or   *)
(* the empty sequence (a history: the code never keeps an empty series).   *)
(***************************************************************************)
MonitorSymbols == {"AAA"}

\* StopLossConfig defaults
fixed_stop_loss == Rat(1, 20)
trailing_stop_loss == Rat(3, 100)
time_stop_loss_hours == 24
max_holding_days == 30

\* config.get('lookback_window', 252)
lookback_window == 252

\* the number of returns from which update_stop_loss_levels sets a
\* volatility stop
volatility_window == 30

NoStops == [fixed_stop |-> None, trailing_stop |-> None,
            volatility_stop |-> None]

\* RiskManager.__init__: the fields the handlers below read or write
NewMonitor ==
    [price_history |-> [s \in MonitorSymbols |-> <<>>],
     return_history |-> [s \in MonitorSymbols |-> <<>>],
     position_history |-> [s \in MonitorSymbols |-> <<>>],
     pnl_history |-> <<>>,
     current_positions |-> [s \in MonitorSymbols |-> None],
     stop_loss_levels |-> [s \in MonitorSymbols |-> NoStops],
     position_entry_time |-> [s \in MonitorSymbols |-> NoTime]]

\* series.tail(n)
tail(s, n) == IF Len(s) > n THEN SubSeq(s, Len(s) - n + 1, Len(s)) ELSE s

\* a weight that is a key of the dictionary and is not 0
is_held(w) == w # None /\ w.n # 0

\* update_market_data(prices, timestamp): prices[s] = None for a symbol
\* that is not a key of prices; each call has a later timestamp
update_market_data(m, prices) ==
    [m EXCEPT !.price_history =
        [s \in MonitorSymbols |->
            IF prices[s] = None THEN @[s]
            ELSE tail(Append(@[s], prices[s]), lookback_window)]]

\* price_series.pct_change().dropna().iloc[-1]
latest_return(series) ==
    RDiv(RSub(series[Len(series)], series[Len(series) - 1]),
         series[Len(series) - 1])

\* the symbols _calculate_portfolio_pnl takes a return of
returning(m) ==
    {s \in MonitorSymbols : /\ is_held(m.current_positions[s])
                            /\ Len(m.price_history[s]) >= 2}

RECURSIVE total_pnl(_, _)
total_pnl(m, S) ==
    IF S = {} THEN Zero
    ELSE LET s == CHOOSE x \in S : TRUE
         IN  RAdd(RMul(m.current_positions[s],
                       latest_return(m.price_history[s])),
                  total_pnl(m, S \ {s}))

\* _calculate_portfolio_pnl(timestamp)
calculate_portfolio_pnl(m) ==
    IF \/ \A s \in MonitorSymbols : m.current_positions[s] = None
       \/ \A s \in MonitorSymbols : m.price_history[s] = <<>>
    THEN m
    ELSE [m EXCEPT
            !.return_history =
                [s \in MonitorSymbols |->
                    IF s \in returning(m)
                    THEN Append(@[s], latest_return(m.price_history[s]))
                    ELSE @[s]],
            !.pnl_history =
                tail(Append(@, total_pnl(m, returning(m))), lookback_window)]

\* update_positions(positions) at time t: positions[s] = None for a symbol
\* that is not a key of positions
update_positions(m, positions, t) ==
    calculate_portfolio_pnl(
        [m EXCEPT
            !.position_entry_time =
                [s \in MonitorSymbols |->
                    IF /\ positions[s] # None
                       /\ ~is_held(m.current_positions[s])
                       /\ positions[s].n # 0
                    THEN t ELSE @[s]],
            !.current_positions = positions,
            !.position_history =
                [s \in MonitorSymbols |->
                    IF positions[s] # None
                    THEN Append(@[s], positions[s]) ELSE @[s]]])

RMin(a, b) == IF RLt(b, a) THEN b ELSE a

\* the symbols the loops of update_stop_loss_levels and
\* check_stop_loss_triggers do not skip
watched(m) ==
    {s \in MonitorSymbols : /\ is_held(m.current_positions[s])
                            /\ m.price_history[s] # <<>>}

\* the body of the loop of update_stop_loss_levels for one symbol, without
\* the volatility stop
stops_of(stops, weight, current_price) ==
    LET fixed_stop ==
            IF weight.n > 0
            THEN RMul(current_price, RSub(Q(1), fixed_stop_loss))
            ELSE RMul(current_price, RAdd(Q(1), fixed_stop_loss))
        trailing ==
            IF stops.trailing_stop = None THEN fixed_stop
            ELSE IF weight.n > 0
                 THEN RMax(stops.trailing_stop,
                           RMul(current_price,
                                RSub(Q(1), trailing_stop_loss)))
                 ELSE RMin(stops.trailing_stop,
                           RMul(current_price,
                                RAdd(Q(1), trailing_stop_loss)))
    IN  [stops EXCEPT !.fixed_stop = fixed_stop, !.trailing_stop = trailing]

\* update_stop_loss_levels(), for return histories shorter than
\* volatility_window
update_stop_loss_levels(m) ==
    [m EXCEPT !.stop_loss_levels =
        [s \in MonitorSymbols |->
            IF s \in watched(m)
            THEN stops_of(@[s], m.current_positions[s],
                          m.price_history[s][Len(m.price_history[s])])
            ELSE @[s]]]

\* the triggers check_stop_loss_triggers lists for one symbol at time t;
\* stops.get(key, 0) of a long and stops.get(key, inf) of a short for a stop
\* that is not set
triggers_of(m, s, t) ==
    LET weight == m.current_positions[s]
        current_price == m.price_history[s][Len(m.price_history[s])]
        stops == m.stop_loss_levels[s]
        hit(stop) ==
            IF weight.n > 0
            THEN RLe(current_price, IF stop = None THEN Zero ELSE stop)
            ELSE stop # None /\ RLe(stop, current_price)
        entry_time == m.position_entry_time[s]
        price_triggers ==
            IF stops.fixed_stop = None THEN {}
            ELSE {x \in {"fixed_stop"} : hit(stops.fixed_stop)}
                 \cup {x \in {"trailing_stop"} : hit(stops.trailing_stop)}
                 \cup {x \in {"volatility_stop"} :
                          hit(stops.volatility_stop)}
        time_triggers ==
            IF entry_time = NoTime THEN {}
            ELSE {x \in {"time_stop"} :
                     t - entry_time > time_stop_loss_hours}
                 \cup {x \in {"max_holding"} :
                          (t - entry_time) \div 24 > max_holding_days}
    IN  price_triggers \cup time_triggers

\* check_stop_loss_triggers() at time t: the dictionary it returns, the empty
\* set for a symbol that is not a key of it
check_stop_loss_triggers(m, t) ==
    [s \in MonitorSymbols |->
        IF s \in watched(m) THEN triggers_of(m, s, t) ELSE {}]

VARIABLES
    monitor,    \* the RiskManager of src/risk_manager.py
    now,        \* datetime.now() at the last call, in hours
    mcalls,     \* the number of calls of each handler so far
    mlast,      \* the last call: its name, the monitor before it, its result
    reopened    \* the symbols entered again since their trailing stop was
                \* last computed

mvars == <<monitor, now, mcalls, mlast, reopened>>

NoTriggers == [s \in MonitorSymbols |-> {}]

MonitorAtRest ==
    /\ monitor = NewMonitor
    /\ now = NoTime
    /\ mcalls = [market |-> 0, positions |-> 0, stops |-> 0, checks |-> 0]
    /\ mlast = [op |-> "none", before |-> NewMonitor, ret |-> NoTriggers]
    /\ reopened = {}

(***************************************************************************)
(* BacktestEngine: state.                                                  *)
(***************************************************************************)
VARIABLES
    cfg,                \* the scenario: the engine's parameters and its inputs
    market_data,        \* self.market_data: [loaded, np, rows]
    current_prices,     \* self.current_prices: symbol -> price or None
    portfolio,          \* self.portfolio
    risk_manager,       \* self.risk_manager
    trades,             \* self.trades
    portfolio_history,  \* self.portfolio_history
    orders,             \* self.orders: the Order objects, by place in pool
    pool,               \* the Order objects the strategy has constructed
    pc,                 \* where the engine is: idle, or a place in run_backtest
    data,               \* run_backtest's local: the rows of the date range
    i,                  \* the row the loop is at
    queue,              \* the orders of `signals` not yet executed
    outcome,            \* how the last run_backtest call ended
    results,            \* what the last run_backtest call returned
    run,                \* the last run started: its number, arguments,
                        \* strategy calls, the entries it has appended to
                        \* each log, the portfolio after each execute_order
                        \* and update_portfolio (trace), how it ended (ret),
                        \* the dates of the
                        \* last run_backtest call (asked), the Order objects
                        \* each strategy call returned (submitted) and the
                        \* execute_order calls made (executed)
    prev,               \* the run that returned before it
    last,               \* the last execute_order call, before and after
    used,               \* the calls made so far: load_data, orders returned
                        \* by the strategy, exceptions raised by it, engines
                        \* constructed after the first
    twin                \* the first run of the engine constructed before
                        \* this one

vars == <<cfg, market_data, current_prices, portfolio, risk_manager, trades,
          portfolio_history, orders, pool, pc, data, i, queue, outcome,
          results, run, prev, last, used, twin>>

NoResults ==
    [initial_capital |-> Zero, final_value |-> Zero, total_return |-> Zero,
     total_trades |-> 0, win_rate |-> Zero, max_drawdown |-> Zero,
     portfolio_history |-> <<>>, trades |-> <<>>, orders |-> <<>>]

NoRun == [n |-> 0, ret |-> "none", asked |-> <<NoTime, NoTime>>,
          table |-> [loaded |-> FALSE, np |-> FALSE, rows |-> <<>>],
          args |-> <<NoTime, NoTime>>, calls |-> <<>>,
          submitted |-> <<>>, executed |-> <<>>, trace |-> <<>>,
          made |-> [trades |-> 0, history |-> 0, orders |-> 0],
          before |-> [trades |-> 0, history |-> 0, orders |-> 0]]

NoPrev == [valid |-> FALSE, args |-> <<NoTime, NoTime>>, calls |-> <<>>,
           market_data |-> [loaded |-> FALSE, np |-> FALSE, rows |-> <<>>],
           results |-> NoResults]

NoTwin ==
    [valid |-> FALSE, ret |-> "none", args |-> <<NoTime, NoTime>>,
     calls |-> <<>>,
     market_data |-> [loaded |-> FALSE, np |-> FALSE, rows |-> <<>>],
     trace |-> <<>>, trades |-> <<>>, portfolio_history |-> <<>>,
     results |-> NoResults]

NoExec ==
    [n |-> 0, oid |-> 0, timestamp |-> NoTime, how |-> "none", ret |-> "none",
     order_before |-> NewOrder(Tmpl("default", "BUY", "MARKET", 0, None)),
     order_after |-> NewOrder(Tmpl("default", "BUY", "MARKET", 0, None)),
     prices |-> [s \in Symbols |-> None],
     pf_before |-> NewPortfolio(Zero, Q(1)),
     pf_after |-> NewPortfolio(Zero, Q(1)),
     rm_before |-> NewRiskManager(Zero, Zero),
     rm_after |-> NewRiskManager(Zero, Zero),
     trades_before |-> <<>>, trades_after |-> <<>>,
     orders_before |-> <<>>, orders_after |-> <<>>,
     history_before |-> <<>>, history_after |-> <<>>]

\* BacktestEngine.__init__
EngineConstructed ==
    /\ market_data = [loaded |-> FALSE, np |-> FALSE, rows |-> <<>>]
    /\ current_prices = [s \in Symbols |-> None]
    /\ portfolio = NewPortfolio(cfg.engine.initial_capital, cfg.engine.leverage)
    /\ risk_manager = NewRiskManager(cfg.engine.max_position_size,
                                     cfg.engine.max_drawdown)
    /\ trades = <<>>
    /\ portfolio_history = <<>>
    /\ orders = <<>>
    /\ pool = <<>>
    /\ pc = "idle"
    /\ data = <<>>
    /\ i = 0
    /\ queue = <<>>
    /\ outcome = "none"
    /\ results = NoResults
    /\ run = NoRun
    /\ prev = NoPrev
    /\ last = NoExec
    /\ used = [loads |-> 0, orders |-> 0, raises |-> 0, engines |-> 0]
    /\ twin = NoTwin

\* the engine of a scenario as constructed; the stand-alone Position is not
\* used
Init ==
    /\ cfg \in Scenarios
    /\ EngineConstructed
    /\ PosAtRest
    /\ MonitorAtRest

\* BacktestEngine.__init__ with a portfolio shared between the instances
new_engine_shared_portfolio ==
    /\ pc = "idle"
    /\ run.n = 1
    /\ run.ret \in {"returned", "returned {}"}
    /\ used.engines < cfg.engines - 1
    /\ twin' = [valid |-> TRUE, ret |-> run.ret, args |-> run.args,
                calls |-> run.calls, market_data |-> run.table,
                trace |-> run.trace, trades |-> trades,
                portfolio_history |-> portfolio_history, results |-> results]
    /\ market_data' = [loaded |-> FALSE, np |-> FALSE, rows |-> <<>>]
    /\ current_prices' = [s \in Symbols |-> None]
    /\ portfolio' = portfolio
    /\ risk_manager' = NewRiskManager(cfg.engine.max_position_size,
                                      cfg.engine.max_drawdown)
    /\ trades' = <<>>
    /\ portfolio_history' = <<>>
    /\ orders' = <<>>
    /\ data' = <<>>
    /\ i' = 0
    /\ queue' = <<>>
    /\ outcome' = "none"
    /\ results' = NoResults
    /\ run' = NoRun
    /\ prev' = NoPrev
    /\ last' = NoExec
    /\ used' = [used EXCEPT !.loads = 0, !.engines = @ + 1]
    /\ UNCHANGED <<cfg, pool, pc, pvars, mvars>>

\* BacktestEngine.__init__ once more, with the parameters of the first
\* engine, after the first run of the engine before has returned; the Order
\* objects of the strategy stay
new_engine ==
    /\ pc = "idle"
    /\ run.n = 1
    /\ run.ret \in {"returned", "returned {}"}
    /\ used.engines < cfg.engines - 1
    /\ twin' = [valid |-> TRUE, ret |-> run.ret, args |-> run.args,
                calls |-> run.calls, market_data |-> run.table,
                trace |-> run.trace, trades |-> trades,
                portfolio_history |-> portfolio_history, results |-> results]
    /\ market_data' = [loaded |-> FALSE, np |-> FALSE, rows |-> <<>>]
    /\ current_prices' = [s \in Symbols |-> None]
    /\ portfolio' = NewPortfolio(cfg.engine.initial_capital, cfg.engine.leverage)
    /\ risk_manager' = NewRiskManager(cfg.engine.max_position_size,
                                      cfg.engine.max_drawdown)
    /\ trades' = <<>>
    /\ portfolio_history' = <<>>
    /\ orders' = <<>>
    /\ data' = <<>>
    /\ i' = 0
    /\ queue' = <<>>
    /\ outcome' = "none"
    /\ results' = NoResults
    /\ run' = NoRun
    /\ prev' = NoPrev
    /\ last' = NoExec
    /\ used' = [used EXCEPT !.loads = 0, !.engines = @ + 1]
    /\ UNCHANGED <<cfg, pool, pc, pvars, mvars>>

(***************************************************************************)
(* load_data.                                                              *)
(***************************************************************************)
RECURSIVE InsertRow(_, _)
InsertRow(r, sorted) ==
    IF sorted = <<>> THEN <<r>>
    ELSE IF r.timestamp < Head(sorted).timestamp THEN <<r>> \o sorted
    ELSE <<Head(sorted)>> \o InsertRow(r, Tail(sorted))

\* DataFrame.sort_values('timestamp'); the timestamps of a table are distinct
RECURSIVE sort_values(_)
sort_values(rows) ==
    IF rows = <<>> THEN <<>>
    ELSE InsertRow(rows[Len(rows)], sort_values(SubSeq(rows, 1, Len(rows) - 1)))

\* BacktestEngine.load_data(data)
load_data ==
    /\ pc = "idle"
    /\ used.loads < MaxLoads
    /\ \E t \in cfg.tables :
          market_data' = [loaded |-> TRUE, np |-> t.np, rows |-> sort_values(t.rows)]
    /\ used' = [used EXCEPT !.loads = @ + 1]
    /\ UNCHANGED <<cfg, twin, current_prices, portfolio, risk_manager, trades,
                   portfolio_history, orders, pool, pc, data, i, queue,
                   outcome, results, run, prev, last, pvars, mvars>>

(***************************************************************************)
(* run_backtest: the preconditions and the reset of the logs.              *)
(***************************************************************************)
\* lines 408-412
InRange(rows, start_date, end_date) ==
    SelectSeq(rows, LAMBDA r :
        /\ (start_date = NoTime \/ r.timestamp >= start_date)
        /\ (end_date = NoTime \/ r.timestamp <= end_date))

\* line 405: raise ValueError("Market data not loaded")
run_backtest_not_loaded ==
    /\ pc = "idle"
    /\ run.n < cfg.runs
    /\ ~market_data.loaded
    /\ outcome' = "ValueError: Market data not loaded"
    /\ run' = [run EXCEPT !.n = @ + 1]
    /\ UNCHANGED <<cfg, twin, market_data, current_prices, portfolio, risk_manager,
                   trades, portfolio_history, orders, pool, pc, data, i,
                   queue, results, prev, last, used, pvars, mvars>>

\* run_backtest with the reset of lines 421-423 made before the check of
\* line 414
run_backtest_no_rows_after_reset ==
    /\ pc = "idle"
    /\ run.n < cfg.runs
    /\ market_data.loaded
    /\ \E args \in cfg.dates :
          /\ InRange(market_data.rows, args[1], args[2]) = <<>>
          /\ run' = [run EXCEPT !.n = @ + 1, !.asked = args]
    /\ outcome' = "ValueError: No data in specified date range"
    /\ trades' = <<>>
    /\ portfolio_history' = <<>>
    /\ orders' = <<>>
    /\ UNCHANGED <<cfg, twin, market_data, current_prices, portfolio, risk_manager,
                   pool, pc, data, i, queue, results, prev, last, used, pvars, mvars>>

\* line 415: raise ValueError("No data in specified date range")
run_backtest_no_rows ==
    /\ pc = "idle"
    /\ run.n < cfg.runs
    /\ market_data.loaded
    /\ \E args \in cfg.dates :
          /\ InRange(market_data.rows, args[1], args[2]) = <<>>
          /\ run' = [run EXCEPT !.n = @ + 1, !.asked = args]
    /\ outcome' = "ValueError: No data in specified date range"
    /\ UNCHANGED <<cfg, twin, market_data, current_prices, portfolio, risk_manager,
                   trades, portfolio_history, orders, pool, pc, data, i,
                   queue, results, prev, last, used, pvars, mvars>>

\* the reset without self.trades.clear()
cleared_logs_but_trades ==
    [trades |-> trades, portfolio_history |-> <<>>, orders |-> <<>>]

\* lines 421-423: self.trades.clear() ...
cleared_logs == [trades |-> <<>>, portfolio_history |-> <<>>, orders |-> <<>>]

\* run_backtest(strategy, start_date, end_date) up to the first row
run_backtest_start ==
    /\ pc = "idle"
    /\ run.n < cfg.runs
    /\ market_data.loaded
    /\ \E args \in cfg.dates :
          /\ InRange(market_data.rows, args[1], args[2]) # <<>>
          /\ data' = InRange(market_data.rows, args[1], args[2])
          /\ run' = [n |-> run.n + 1, ret |-> "none", asked |-> args,
                     table |-> market_data,
                     args |-> args,
                     calls |-> <<>>, submitted |-> <<>>, executed |-> <<>>,
                     trace |-> <<>>,
                     made |-> [trades |-> 0, history |-> 0, orders |-> 0],
                     before |-> [trades |-> Len(trades),
                                 history |-> Len(portfolio_history),
                                 orders |-> Len(orders)]]
    /\ trades' = cleared_logs.trades
    /\ portfolio_history' = cleared_logs.portfolio_history
    /\ orders' = cleared_logs.orders
    /\ i' = 1
    /\ queue' = <<>>
    /\ pc' = "signals"
    /\ outcome' = "running"
    /\ prev' = IF run.ret \in {"returned", "returned {}"}
               THEN [valid |-> run.ret = "returned", args |-> run.args,
                     calls |-> run.calls, market_data |-> run.table,
                     results |-> results]
               ELSE prev
    /\ UNCHANGED <<cfg, twin, market_data, current_prices, portfolio, risk_manager,
                   pool, results, last, used, pvars, mvars>>

(***************************************************************************)
(* run_backtest: one row of the loop (lines 426-464).                      *)
(***************************************************************************)
\* lines 430-433: the prices of the row's 'close' and '<symbol>_close' columns
prices_at(prices, row) ==
    [s \in Symbols |-> IF row.close[s] # None THEN row.close[s] ELSE prices[s]]

\* what a strategy may return: each item is an Order it constructs (ref = 0)
\* or an Order object it has returned before (ref = its place in pool)
Items ==
    [ref : {0}, t : cfg.menu]
        \cup {[ref |-> k, t |-> TemplateOf(pool[k])] : k \in 1..Len(pool)}

\* the lists of at most n items
RECURSIVE ListsUpTo(_)
ListsUpTo(n) ==
    IF n = 0 THEN {<<>>}
    ELSE ListsUpTo(n - 1)
            \cup {Append(l, it) : l \in {m \in ListsUpTo(n - 1) : Len(m) = n - 1},
                                  it \in Items}

Signals ==
    {sig \in ListsUpTo(MaxSignals) : used.orders + Len(sig) <= cfg.orders}

\* the pool with the Orders of sig constructed, and the list the strategy
\* returns
RECURSIVE Construct(_, _, _)
Construct(sig, p, q) ==
    IF sig = <<>> THEN [pool |-> p, queue |-> q]
    ELSE IF Head(sig).ref = 0
    THEN Construct(Tail(sig), Append(p, NewOrder(Head(sig).t)), Append(q, Len(p) + 1))
    ELSE Construct(Tail(sig), p, Append(q, Head(sig).ref))

\* data.loc[:idx], idx the index label of row k (line 441): a slice by
\* label, from the first row to the right bound of the label.  The bound is
\* the place of the last row carrying the label when the rows carrying it
\* are adjacent (only row k when the label is unique); when they are not,
\* pandas raises KeyError (0 here).
loc_upto(d, k) ==
    LET same == {j \in 1..Len(d) : d[j].label = d[k].label}
        first == CHOOSE j \in same : \A m \in same : j <= m
        right == CHOOSE j \in same : \A m \in same : m <= j
    IN  IF Cardinality(same) = right - first + 1 THEN right ELSE 0

\* the strategy call of row i, as run_backtest makes it: the window is rows
\* 1..hi of data
Call(out, sig) ==
    [hi |-> loc_upto(data, i), timestamp |-> data[i].timestamp, out |-> out,
     signals |-> sig]

\* run_backtest without the try of lines 440-450: the exception of
\* generate_signals leaves run_backtest
step_strategy_raises_uncaught ==
    /\ pc = "signals"
    /\ loc_upto(data, i) # 0
    /\ used.raises < cfg.raises
    /\ used' = [used EXCEPT !.raises = @ + 1]
    /\ current_prices' = prices_at(current_prices, data[i])
    /\ run' = [run EXCEPT !.calls = Append(@, Call("raise", <<>>)),
                          !.submitted = Append(@, <<>>),
                          !.ret = "raised"]
    /\ pc' = "idle"
    /\ outcome' = "Exception"
    /\ UNCHANGED <<cfg, twin, market_data, portfolio, risk_manager, trades,
                   portfolio_history, orders, pool, data, i, queue,
                   results, prev, last, pvars, mvars>>

\* data.loc[:idx] raises KeyError inside the try, before generate_signals
\* is called: `continue` (line 450)
step_window_raises ==
    /\ pc = "signals"
    /\ loc_upto(data, i) = 0
    /\ current_prices' = prices_at(current_prices, data[i])
    /\ run' = [run EXCEPT !.calls = Append(@, Call("KeyError", <<>>)),
                          !.submitted = Append(@, <<>>)]
    /\ IF i < Len(data) THEN i' = i + 1 /\ pc' = "signals"
                        ELSE i' = i /\ pc' = "finish"
    /\ UNCHANGED <<cfg, twin, market_data, portfolio, risk_manager, trades,
                   portfolio_history, orders, pool, data, queue, outcome,
                   results, prev, last, used, pvars, mvars>>

\* strategy.generate_signals raises: `continue` (line 450)
step_strategy_raises ==
    /\ pc = "signals"
    /\ loc_upto(data, i) # 0
    /\ used.raises < cfg.raises
    /\ used' = [used EXCEPT !.raises = @ + 1]
    /\ current_prices' = prices_at(current_prices, data[i])
    /\ run' = [run EXCEPT !.calls = Append(@, Call("raise", <<>>)),
                          !.submitted = Append(@, <<>>)]
    /\ IF i < Len(data) THEN i' = i + 1 /\ pc' = "signals"
                        ELSE i' = i /\ pc' = "finish"
    /\ UNCHANGED <<cfg, twin, market_data, portfolio, risk_manager, trades,
                   portfolio_history, orders, pool, data, queue, outcome,
                   results, prev, last, pvars, mvars>>

\* strategy.generate_signals returns a list of orders (line 441)
step_signals ==
    /\ pc = "signals"
    /\ loc_upto(data, i) # 0
    /\ current_prices' = prices_at(current_prices, data[i])
    /\ \E sig \in Signals :
          /\ pool' = Construct(sig, pool, <<>>).pool
          /\ queue' = Construct(sig, pool, <<>>).queue
          /\ run' = [run EXCEPT !.calls = Append(@, Call("return", sig)),
                                !.submitted =
                                    Append(@, Construct(sig, pool, <<>>).queue)]
          /\ used' = [used EXCEPT !.orders = @ + Len(sig)]
    /\ pc' = "orders"
    /\ UNCHANGED <<cfg, twin, market_data, portfolio, risk_manager, trades,
                   portfolio_history, orders, data, i, outcome, results,
                   prev, last, pvars, mvars>>

EngineState ==
    [current_prices |-> current_prices, portfolio |-> portfolio,
     risk_manager |-> risk_manager, cost_model |-> cfg.engine.cost_model,
     trades |-> trades, np |-> market_data.np]

\* lines 444-446: the next order of signals; True appends it to self.orders,
\* an exception leaves the loop over signals for `continue` (lines 448-450)
step_execute_order ==
    /\ pc = "orders"
    /\ queue # <<>>
    /\ \E r \in {execute_order(pool[Head(queue)], data[i].timestamp, EngineState)} :
       \E logged \in {IF r.ret = "True" THEN Append(orders, Head(queue)) ELSE orders} :
           /\ pool' = [pool EXCEPT ![Head(queue)] = r.order]
           /\ portfolio' = r.pf
           /\ risk_manager' = r.rm
           /\ trades' = r.trades
           /\ orders' = logged
           /\ run' = [run EXCEPT
                        !.executed = Append(@, [oid |-> Head(queue),
                                                call |-> Len(run.calls)]),
                        !.trace = Append(@, r.pf),
                        !.made.trades = @ + (Len(r.trades) - Len(trades)),
                        !.made.orders = @ + (Len(logged) - Len(orders))]
           /\ last' = [n |-> run.n, oid |-> Head(queue),
                       timestamp |-> data[i].timestamp,
                       how |-> r.how, ret |-> r.ret,
                       order_before |-> pool[Head(queue)], order_after |-> r.order,
                       prices |-> current_prices,
                       pf_before |-> portfolio, pf_after |-> r.pf,
                       rm_before |-> risk_manager, rm_after |-> r.rm,
                       trades_before |-> trades, trades_after |-> r.trades,
                       orders_before |-> orders, orders_after |-> logged,
                       history_before |-> portfolio_history,
                       history_after |-> portfolio_history]
           /\ IF r.ret = "raise"
              THEN /\ queue' = <<>>
                   /\ IF i < Len(data) THEN i' = i + 1 /\ pc' = "signals"
                                       ELSE i' = i /\ pc' = "finish"
              ELSE /\ queue' = Tail(queue)
                   /\ i' = i
                   /\ pc' = "orders"
    /\ UNCHANGED <<cfg, twin, market_data, current_prices, portfolio_history, data,
                   outcome, results, prev, used, pvars, mvars>>

\* lines 457-462
history_record(timestamp, pf, rm, prices) ==
    [timestamp |-> timestamp, returns |-> Zero]
        @@ portfolio_metrics(pf, prices) @@ risk_metrics(rm, pf)

\* lines 452-464: every order of the row executed without exception.  An
\* exception out of update_risk_metrics is not caught: run_backtest raises.
step_record ==
    /\ pc = "orders"
    /\ queue = <<>>
    /\ LET pf == update_portfolio(portfolio, current_prices)
           t == track_drawdown(risk_manager, pf.total_value)
       IN  /\ portfolio' = pf
           /\ risk_manager' = t.rm
           /\ IF t.raised
              THEN /\ pc' = "idle"
                   /\ outcome' = "ZeroDivisionError"
                   /\ run' = [run EXCEPT !.ret = "raised"]
                   /\ UNCHANGED <<portfolio_history, i>>
              ELSE /\ portfolio_history' =
                         Append(portfolio_history,
                                history_record(data[i].timestamp, pf, t.rm,
                                               current_prices))
                   /\ run' = [run EXCEPT !.made.history = @ + 1,
                                         !.trace = Append(@, pf)]
                   /\ outcome' = outcome
                   /\ IF i < Len(data) THEN i' = i + 1 /\ pc' = "signals"
                                       ELSE i' = i /\ pc' = "finish"
    /\ UNCHANGED <<cfg, twin, market_data, current_prices, trades, orders, pool,
                   data, queue, results, prev, last, used, pvars, mvars>>

(***************************************************************************)
(* run_backtest: after the loop (lines 466-475).                           *)
(***************************************************************************)
\* _calculate_returns raises ZeroDivisionError on a previous value of 0
returns_raise(h) ==
    Len(h) >= 2 /\ \E k \in 1..(Len(h) - 1) : h[k].total_value.n = 0

\* _calculate_returns with the change taken over the current value, not the
\* previous one
calculate_returns_over_current(h) ==
    IF Len(h) < 2 THEN h
    ELSE [k \in 1..Len(h) |->
            IF k = 1 THEN [h[k] EXCEPT !.returns = Zero]
            ELSE [h[k] EXCEPT !.returns =
                      RDiv(RSub(h[k].total_value, h[k - 1].total_value),
                           h[k].total_value)]]

\* BacktestEngine._calculate_returns
calculate_returns(h) ==
    IF Len(h) < 2 THEN h
    ELSE [k \in 1..Len(h) |->
            IF k = 1 THEN [h[k] EXCEPT !.returns = Zero]
            ELSE [h[k] EXCEPT !.returns =
                      RDiv(RSub(h[k].total_value, h[k - 1].total_value),
                           h[k - 1].total_value)]]

\* history_df['total_value'].max(): the peak of the whole history, not the
\* running one
whole_max(h, k) ==
    CHOOSE p \in {h[j].total_value : j \in 1..Len(h)} :
        \A j \in 1..Len(h) : RLe(h[j].total_value, p)

\* history_df['total_value'].expanding().max() at row k
RECURSIVE expanding_max(_, _)
expanding_max(h, k) ==
    IF k = 1 THEN h[1].total_value
    ELSE RMax(expanding_max(h, k - 1), h[k].total_value)

\* drawdowns.min() over rows 1..k (the values of a history are positive)
RECURSIVE drawdowns_min(_, _)
drawdowns_min(h, k) ==
    LET dd == RDiv(RSub(h[k].total_value, expanding_max(h, k)),
                   expanding_max(h, k))
    IN  IF k = 1 THEN dd
        ELSE IF RLt(dd, drawdowns_min(h, k - 1)) THEN dd
             ELSE drawdowns_min(h, k - 1)

\* lines 504-510
win_rate_of(tr) ==
    IF Len(tr) > 0
    THEN Rat(Cardinality({k \in 1..Len(tr) : tr[k].price.n > 0}), Len(tr))
    ELSE Zero

\* BacktestEngine._generate_backtest_results, the history not empty
generate_backtest_results(pf, h, tr, ord) ==
    [initial_capital |-> pf.initial_capital,
     final_value |-> pf.total_value,
     total_return |-> RDiv(RSub(pf.total_value, pf.initial_capital),
                           pf.initial_capital),
     total_trades |-> Len(tr),
     win_rate |-> win_rate_of(tr),
     max_drawdown |-> RAbs(drawdowns_min(h, Len(h))),
     portfolio_history |-> h,
     trades |-> tr,
     orders |-> ord]

\* lines 466-475; an empty history makes _generate_backtest_results return {}
run_backtest_finish ==
    /\ pc = "finish"
    /\ pc' = "idle"
    /\ IF returns_raise(portfolio_history)
       THEN /\ outcome' = "ZeroDivisionError"
            /\ run' = [run EXCEPT !.ret = "raised"]
            /\ UNCHANGED <<portfolio_history, results>>
       ELSE /\ portfolio_history' = calculate_returns(portfolio_history)
            /\ outcome' = IF portfolio_history = <<>> THEN "returned {}"
                          ELSE "returned"
            /\ results' = IF portfolio_history = <<>> THEN NoResults
                          ELSE generate_backtest_results(
                                   portfolio, calculate_returns(portfolio_history),
                                   trades, orders)
            /\ run' = [run EXCEPT !.ret = IF portfolio_history = <<>>
                                          THEN "returned {}" ELSE "returned"]
    /\ UNCHANGED <<cfg, twin, market_data, current_prices, portfolio, risk_manager,
                   trades, orders, pool, data, i, queue, prev, last, used, pvars, mvars>>

(***************************************************************************)
(* SpecPos: one Position driven by an arbitrary sequence of fills and      *)
(* mark-to-market calls.                                                   *)
(***************************************************************************)
MaxFills == 4

MaxFillQty == 2

FillQtys == ((-MaxFillQty)..MaxFillQty) \ {0}

FillPrices == {Q(8), Q(10), Q(12)}

\* Reference, independent of the branches of update_position: a fill of the
\* position's own sign (or on a flat position) realizes nothing; a fill of the
\* opposite sign closes min(|tq|, |quantity|) units of the position, and each
\* closed unit of a long (short) position realizes trade price - average
\* price (average price - trade price).
RefRealized(pos, tq, tp) ==
    IF pos.quantity = 0 \/ Sign(tq) = Sign(pos.quantity) \/ tq = 0
    THEN Zero
    ELSE RMul(RSub(tp, pos.avg_price),
              Q(Sign(pos.quantity) * Min(Abs(tq), Abs(pos.quantity))))

\* a fresh Position; the engine is as constructed and stays so
PosInit ==
    /\ PosAtRest
    /\ MonitorAtRest
    /\ cfg = CHOOSE c \in Scenarios : TRUE
    /\ EngineConstructed

\* position.update_position(trade_quantity, effective_price, current_price),
\* as execute_order calls it
PosFill ==
    /\ pn < MaxFills
    /\ \E tq \in FillQtys, tp \in FillPrices, cp \in FillPrices :
          /\ ppos' = update_position(ppos, tq, tp, cp)
          /\ plast' = [tq |-> tq, tp |-> tp, cp |-> cp, before |-> ppos]
          /\ pref' = RAdd(pref, RefRealized(ppos, tq, tp))
    /\ pn' = pn + 1
    /\ UNCHANGED <<vars, mvars>>

\* position.update_position(0, 0, price), as update_portfolio calls it for a
\* position with quantity # 0
PosMark ==
    /\ pn < MaxFills
    /\ ppos.quantity # 0
    /\ \E cp \in FillPrices :
          /\ ppos' = update_position(ppos, 0, Zero, cp)
          /\ plast' = [tq |-> 0, tp |-> Zero, cp |-> cp, before |-> ppos]
          /\ pref' = pref
    /\ pn' = pn + 1
    /\ UNCHANGED <<vars, mvars>>

PosNext == PosFill \/ PosMark

Next ==
    \/ load_data
    \/ run_backtest_not_loaded
    \/ run_backtest_no_rows
    \/ run_backtest_start
    \/ step_window_raises
    \/ step_strategy_raises
    \/ step_signals
    \/ step_execute_order
    \/ step_record
    \/ run_backtest_finish
    \/ new_engine

(***************************************************************************)
(* SpecHist: the results of _generate_backtest_results over a history of   *)
(* arbitrary total values.                                                 *)
(***************************************************************************)
MaxHistory == 4

TotalValues == {Q(90), Q(100), Q(110), Q(120)}

\* an engine as constructed, its history empty
HistInit ==
    /\ cfg = CHOOSE c \in Scenarios : TRUE
    /\ EngineConstructed
    /\ PosAtRest
    /\ MonitorAtRest

\* one more record in the history (line 464, the total value any of
\* TotalValues), then _calculate_returns and _generate_backtest_results over
\* the history so far (lines 467-470)
HistRecord ==
    /\ Len(portfolio_history) < MaxHistory
    /\ \E v \in TotalValues :
       \E h \in {calculate_returns(
                    Append(portfolio_history,
                           [timestamp |-> Len(portfolio_history) + 1,
                            total_value |-> v, returns |-> Zero]))} :
           /\ portfolio_history' = h
           /\ results' = generate_backtest_results(portfolio, h, trades, orders)
    /\ UNCHANGED <<cfg, twin, market_data, current_prices, portfolio,
                   risk_manager, trades, orders, pool, pc, data, i, queue,
                   outcome, run, prev, last, used, pvars, mvars>>

HistNext == HistRecord

(***************************************************************************)
(* SpecRisk: one RiskManager whose check_order is called, as by any caller *)
(* of the class, with portfolios of arbitrary aggregates.                  *)
(***************************************************************************)
MaxChecks == 3

\* the calls of each handler of the risk monitor in SpecStop
MaxMarketUpdates == 2
MaxPositionUpdates == 3
MaxStopUpdates == 2
MaxStopChecks == 1

\* portfolio.total_value and portfolio.margin_available at the call
RiskTotals == {Q(900), Q(1000), Q(1200)}

RiskMargins == {Q(-100), Q(500)}

\* market_data of the call: the price of the one instrument
RiskPrices == [s \in Symbols |-> IF s = "default" THEN Q(10) ELSE None]

\* the orders checked: within the position limit, and beyond it
RiskOrders ==
    { Tmpl("default", "BUY", "MARKET", 5, None),
      Tmpl("default", "SELL", "MARKET", 5, None),
      Tmpl("default", "BUY", "MARKET", 20, None) }

\* a RiskManager as constructed by the engine
RiskInit ==
    /\ cfg = CHOOSE c \in Scenarios : TRUE
    /\ EngineConstructed
    /\ PosAtRest
    /\ MonitorAtRest

\* risk_manager.check_order(order, portfolio, market_data)
RiskCheck ==
    /\ last.n < MaxChecks
    /\ \E tv \in RiskTotals, ma \in RiskMargins, t \in RiskOrders :
       \E pf \in {[portfolio EXCEPT !.total_value = tv,
                                    !.margin_available = ma,
                                    !.positions = with_position(@, t.symbol)]} :
       \E c \in {check_order(risk_manager, NewOrder(t), pf, RiskPrices, FALSE)} :
           /\ portfolio' = pf
           /\ risk_manager' = c.rm
           /\ last' = [NoExec EXCEPT !.n = last.n + 1,
                                     !.how = c.out, !.ret = c.out,
                                     !.order_before = NewOrder(t),
                                     !.order_after = NewOrder(t),
                                     !.prices = RiskPrices,
                                     !.pf_before = pf, !.pf_after = pf,
                                     !.rm_before = risk_manager,
                                     !.rm_after = c.rm]
    /\ UNCHANGED <<cfg, twin, market_data, current_prices, trades,
                   portfolio_history, orders, pool, pc, data, i, queue,
                   outcome, results, run, prev, used, pvars, mvars>>

RiskNext == RiskCheck

(***************************************************************************)
(* SpecStop: the stand-alone risk monitor, driven as the monitoring loop   *)
(* of src/risk_manager.py drives it, in any order.  Each call is an hour   *)
(* after the one before it; a check of the triggers may come a day later.  *)
(***************************************************************************)
MonitorPrices == {Q(90), Q(110)}

MonitorWeights == {None, Zero, Rat(1, 2), Rat(-1, 2)}

Hours == {1, 25}

StopInit ==
    /\ cfg = CHOOSE c \in Scenarios : TRUE
    /\ EngineConstructed
    /\ PosAtRest
    /\ MonitorAtRest

\* risk_manager.update_market_data(prices)
StopMarket ==
    /\ mcalls.market < MaxMarketUpdates
    /\ \E p \in MonitorPrices :
          monitor' = update_market_data(monitor,
                                        [s \in MonitorSymbols |-> p])
    /\ now' = now + 1
    /\ mcalls' = [mcalls EXCEPT !.market = @ + 1]
    /\ mlast' = [op |-> "update_market_data", before |-> monitor,
                 ret |-> NoTriggers]
    /\ UNCHANGED <<reopened, vars, pvars>>

\* risk_manager.update_positions(positions)
StopPositions ==
    /\ mcalls.positions < MaxPositionUpdates
    /\ \E w \in MonitorWeights :
          monitor' = update_positions(monitor, [s \in MonitorSymbols |-> w],
                                      now + 1)
    /\ now' = now + 1
    /\ mcalls' = [mcalls EXCEPT !.positions = @ + 1]
    /\ mlast' = [op |-> "update_positions", before |-> monitor,
                 ret |-> NoTriggers]
    /\ reopened' =
          reopened \cup
          {s \in MonitorSymbols :
              /\ monitor'.position_entry_time[s] = now + 1
              /\ monitor.stop_loss_levels[s].trailing_stop # None}
    /\ UNCHANGED <<vars, pvars>>

\* risk_manager.update_stop_loss_levels()
StopLevels ==
    /\ mcalls.stops < MaxStopUpdates
    /\ \A s \in MonitorSymbols :
          Len(monitor.return_history[s]) < volatility_window
    /\ monitor' = update_stop_loss_levels(monitor)
    /\ now' = now + 1
    /\ mcalls' = [mcalls EXCEPT !.stops = @ + 1]
    /\ mlast' = [op |-> "update_stop_loss_levels", before |-> monitor,
                 ret |-> NoTriggers]
    /\ reopened' = reopened \ watched(monitor)
    /\ UNCHANGED <<vars, pvars>>

\* risk_manager.check_stop_loss_triggers()
StopCheck ==
    /\ mcalls.checks < MaxStopChecks
    /\ \E h \in Hours :
          /\ now' = now + h
          /\ mlast' = [op |-> "check_stop_loss_triggers", before |-> monitor,
                       ret |-> check_stop_loss_triggers(monitor, now + h)]
    /\ mcalls' = [mcalls EXCEPT !.checks = @ + 1]
    /\ UNCHANGED <<monitor, reopened, vars, pvars>>

StopNext == StopMarket \/ StopPositions \/ StopLevels \/ StopCheck

\* the engine, the stand-alone Position left alone
Spec == Init /\ [][Next]_<<vars, pvars, mvars>>

\* the stand-alone Position, the engine left alone
SpecPos == PosInit /\ [][PosNext]_<<vars, pvars, mvars>>

\* the history and the results computed from it
SpecHist == HistInit /\ [][HistNext]_<<vars, pvars, mvars>>

\* the RiskManager alone
SpecRisk == RiskInit /\ [][RiskNext]_<<vars, pvars, mvars>>

\* the risk monitor of src/risk_manager.py alone
SpecStop == StopInit /\ [][StopNext]_<<vars, pvars, mvars>>

(***************************************************************************)
(* C1 (idempotent rerun): when run_backtest has returned twice on the same *)
(* engine, with the same loaded data, the same date range and a strategy   *)
(* that returned the same freshly constructed orders at the same rows, the *)
(* two result bundles agree on final value, total return, total trades,    *)
(* max drawdown, history and trade log.                                    *)
(***************************************************************************)
Bundle(r) ==
    [final_value |-> r.final_value, total_return |-> r.total_return,
     total_trades |-> r.total_trades, max_drawdown |-> r.max_drawdown,
     portfolio_history |-> r.portfolio_history, trades |-> r.trades]

FreshOrdersOnly(calls) ==
    \A k \in 1..Len(calls) :
        \A j \in 1..Len(calls[k].signals) : calls[k].signals[j].ref = 0

SameRunAgain ==
    /\ pc = "idle"
    /\ run.ret = "returned"
    /\ prev.valid
    /\ prev.market_data = run.table
    /\ prev.args = run.args
    /\ prev.calls = run.calls
    /\ FreshOrdersOnly(run.calls)

C1_IdempotentRerun == SameRunAgain => Bundle(results) = Bundle(prev.results)

(***************************************************************************)
(* C2 (risk gate): an order that reaches the risk check with a post-trade  *)
(* weight |(quantity +/- order quantity) x price| / total value above      *)
(* max_position_size is rejected: its status becomes REJECTED and cash,    *)
(* the position's quantity, average price and realized P&L, and the trade  *)
(* log are as before the call.  The weight is a number only when total     *)
(* value is not 0.                                                         *)
(***************************************************************************)
ReachedRiskCheck == last.how \in {"rejected", "filled", "raise"}

PostTradeWeight ==
    LET o == last.order_before
        held == get_position(last.pf_before.positions, o.symbol).quantity
        after == IF o.side = "BUY" THEN held + o.quantity ELSE held - o.quantity
    IN  RDiv(RAbs(RMul(Q(after), last.prices[o.symbol])),
             last.pf_before.total_value)

Overweight ==
    /\ ReachedRiskCheck
    /\ last.pf_before.total_value.n # 0
    /\ RLt(last.rm_before.max_position_size, PostTradeWeight)

PositionKept ==
    LET sym == last.order_before.symbol
        b == get_position(last.pf_before.positions, sym)
        a == get_position(last.pf_after.positions, sym)
    IN  /\ a.quantity = b.quantity
        /\ a.avg_price = b.avg_price
        /\ a.realized_pnl = b.realized_pnl

C2_RiskGateRejects ==
    Overweight =>
        /\ last.how = "rejected"
        /\ last.order_after.status = "REJECTED"
        /\ last.pf_after.cash = last.pf_before.cash
        /\ PositionKept
        /\ last.trades_after = last.trades_before

\* an order on top of an open position is rejected for its weight
C2_Witness ==
    /\ Overweight
    /\ last.how = "rejected"
    /\ last.order_before.status = "PENDING"
    /\ get_position(last.pf_before.positions,
                    last.order_before.symbol).quantity # 0

(***************************************************************************)
(* C3 (cash conservation): after a run in which every order is a market    *)
(* order, on an engine whose slippage rate, impact coefficient, commission *)
(* rate and minimum commission are 0, cash plus the sum over positions of  *)
(* quantity x current price equals initial capital plus the sum over       *)
(* positions of realized P&L.  Stated for the runs that end with every     *)
(* position closed, where the left-hand sum is 0 whatever the prices.      *)
(***************************************************************************)
ZeroCosts ==
    /\ cfg.engine.cost_model.commission_rate = Zero
    /\ cfg.engine.cost_model.commission_min = Zero
    /\ cfg.engine.cost_model.slippage_rate = Zero
    /\ cfg.engine.cost_model.impact_coeff = Zero

AllMarketOrders == \A k \in 1..Len(pool) : pool[k].order_type = "MARKET"

Held == DOMAIN portfolio.positions

EndsFlat == \A s \in Held : portfolio.positions[s].quantity = 0

SumMarketValue ==
    SumOver([s \in Held |-> RMul(Q(portfolio.positions[s].quantity),
                                 current_prices[s])], Held)

SumRealized ==
    SumOver([s \in Held |-> portfolio.positions[s].realized_pnl], Held)

C3_CashConservation ==
    (/\ pc = "idle"
     /\ run.ret = "returned"
     /\ ZeroCosts
     /\ AllMarketOrders
     /\ EndsFlat)
        => RAdd(portfolio.cash, SumMarketValue)
               = RAdd(portfolio.initial_capital, SumRealized)

(***************************************************************************)
(* C4 (position accounting): after any sequence of fills on one Position,  *)
(* realized_pnl equals the sum of the per-fill realized amounts of the     *)
(* independent reference RefRealized.                                      *)
(***************************************************************************)
C4_RealizedMatchesReference == ppos.realized_pnl = pref

(***************************************************************************)
(* C5 (buy and hold): the first run_backtest of an engine over a table     *)
(* with a 'close' column only, the strategy returning one market buy       *)
(* within max_position_size at the first row and nothing afterwards, ends  *)
(* with the position's quantity equal to the order's, its average price    *)
(* equal to the first row's price plus slippage, and one trade in the log. *)
(***************************************************************************)
SingleInstrument ==
    \A k \in 1..Len(data) :
        \A s \in Symbols : s # "default" => data[k].close[s] = None

BoughtAtFirstRow ==
    /\ Len(run.calls) = Len(data)
    /\ Len(run.calls) >= 1
    /\ run.calls[1].out = "return"
    /\ Len(run.calls[1].signals) = 1
    /\ run.calls[1].signals[1].ref = 0
    /\ run.calls[1].signals[1].t.symbol = "default"
    /\ run.calls[1].signals[1].t.side = "BUY"
    /\ run.calls[1].signals[1].t.order_type = "MARKET"
    /\ RLe(RMul(Q(run.calls[1].signals[1].t.quantity), data[1].close["default"]),
           RMul(cfg.engine.max_position_size, cfg.engine.initial_capital))
    /\ \A k \in 2..Len(run.calls) :
          run.calls[k].out = "return" /\ run.calls[k].signals = <<>>

BuyAndHoldRun ==
    /\ pc = "idle"
    /\ run.n = 1
    /\ run.ret # "none"
    /\ SingleInstrument
    /\ BoughtAtFirstRow

C5_BuyAndHold ==
    BuyAndHoldRun =>
        LET bought == run.calls[1].signals[1].t.quantity
            first == data[1].close["default"]
            held == get_position(portfolio.positions, "default")
        IN  /\ held.quantity = bought
            /\ held.avg_price =
                   RAdd(first, calculate_costs(cfg.engine.cost_model, bought,
                                               first).slippage)
            /\ Len(trades) = 1

(***************************************************************************)
(* C6 (fail-soft strategy error): the step of a row at which               *)
(* generate_signals raises leaves cash, positions and the trade log as     *)
(* they were, revalues the portfolio at the row's prices, and appends the  *)
(* row's record to the history.                                            *)
(***************************************************************************)
StrategyRaised ==
    /\ Len(run'.calls) = Len(run.calls) + 1
    /\ run'.calls[Len(run'.calls)].out = "raise"

C6_FailSoftStep ==
    [][StrategyRaised =>
          /\ portfolio'.cash = portfolio.cash
          /\ \A s \in DOMAIN portfolio.positions :
                portfolio'.positions[s].quantity = portfolio.positions[s].quantity
          /\ trades' = trades
          /\ portfolio'.total_value =
                 update_portfolio(portfolio, current_prices').total_value
          /\ Len(portfolio_history') = Len(portfolio_history) + 1
          /\ portfolio_history'[Len(portfolio_history')].timestamp =
                 run'.calls[Len(run'.calls)].timestamp]_<<vars, pvars, mvars>>

(***************************************************************************)
(* C7 (auditability of rejections): an order the risk gate has rejected    *)
(* during a run is in the order log the run returns, with status REJECTED. *)
(***************************************************************************)
InOrderLog(oid, log) == \E j \in 1..Len(log) : log[j] = oid

C7_RejectionsLogged ==
    (/\ pc = "idle"
     /\ run.ret = "returned"
     /\ last.n = run.n
     /\ last.how = "rejected")
        => /\ InOrderLog(last.oid, results.orders)
           /\ pool[last.oid].status = "REJECTED"

(***************************************************************************)
(* C8 (order status is monotonic): no step changes the status of an order  *)
(* that is FILLED or REJECTED, and executing such an order again, when the *)
(* strategy returns the same object at a later row, adds no trade and      *)
(* leaves cash as it was.                                                  *)
(***************************************************************************)
Terminal(o) == o.status \in {"FILLED", "REJECTED"}

C8_StatusMonotonic ==
    [][/\ \A k \in 1..Len(pool) :
             Terminal(pool[k]) => pool'[k].status = pool[k].status
       /\ (pc = "orders" /\ queue # <<>> /\ Terminal(pool[Head(queue)]))
             => trades' = trades /\ portfolio'.cash = portfolio.cash
      ]_<<vars, pvars, mvars>>

(***************************************************************************)
(* C9 (one history record per row): after run_backtest has returned, the   *)
(* history has one record for each row of the selected date range, with    *)
(* the rows' timestamps, in non-decreasing order.                          *)
(***************************************************************************)
C9_OneRecordPerRow ==
    (pc = "idle" /\ run.ret = "returned") =>
        /\ Len(portfolio_history) = Len(data)
        /\ \A k \in 1..Len(portfolio_history) :
              portfolio_history[k].timestamp = data[k].timestamp
        /\ \A k \in 1..(Len(portfolio_history) - 1) :
              portfolio_history[k].timestamp <= portfolio_history[k + 1].timestamp

(***************************************************************************)
(* C10 (reset of the logs): from the moment a run_backtest call has passed *)
(* its preconditions, the trade log, the order log and the history hold    *)
(* exactly the entries that call has appended: nothing of an earlier run.  *)
(***************************************************************************)
C10_LogsOfThisRunOnly ==
    /\ Len(trades) = run.made.trades
    /\ Len(orders) = run.made.orders
    /\ Len(portfolio_history) = run.made.history

\* a second run has returned on an engine whose three logs were not empty
C10_Witness ==
    /\ pc = "idle"
    /\ run.ret = "returned"
    /\ run.before.trades > 0
    /\ run.before.orders > 0
    /\ run.before.history > 0
    /\ run.made.trades > 0

(***************************************************************************)
(* C11 (full close): a fill whose quantity is the opposite of the          *)
(* position's quantity leaves the position, long or short, with quantity 0 *)
(* and average price 0.                                                    *)
(***************************************************************************)
FullClose ==
    /\ plast.before.quantity # 0
    /\ plast.tq = -plast.before.quantity

C11_FullCloseIsFlat ==
    FullClose => ppos.quantity = 0 /\ ppos.avg_price = Zero

\* a short position built by two fills at different prices is bought back
C11_Witness ==
    /\ FullClose
    /\ plast.before.quantity = -MaxFillQty
    /\ plast.before.avg_price = Q(9)
    /\ plast.tp = Q(12)
    /\ ppos.quantity = 0

(***************************************************************************)
(* C12 (reopening): the fill that follows a full close opens the position  *)
(* with the fill's signed quantity and the fill's price as average price,  *)
(* whatever the prices of the earlier fills.                               *)
(***************************************************************************)
FillOnFlat == plast.before.quantity = 0 /\ plast.tq # 0

C12_ReopenAtFillPrice ==
    FillOnFlat => ppos.quantity = plast.tq /\ ppos.avg_price = plast.tp

\* a position opened and closed at other prices, with a realized loss, is
\* reopened on the other side
C12_Witness ==
    /\ FillOnFlat
    /\ pn = 3
    /\ plast.before.realized_pnl = Q(-4)
    /\ plast.tq = -1
    /\ plast.tp = Q(10)
    /\ ppos.avg_price = Q(10)

(***************************************************************************)
(* C13 (unfilled orders): an execute_order call for a PENDING order whose  *)
(* symbol has no known price, or a limit buy (sell) with the current price *)
(* above (below) its limit, returns False and changes nothing: the order   *)
(* stays PENDING, cash, positions and the trade log are as before, the    *)
(* order is not logged.  The engine executes an Order object only as many  *)
(* times at a row as the strategy has returned it at that row: an unfilled *)
(* order is not tried again at a later row.                                *)
(***************************************************************************)
DoesNotFill ==
    LET o == last.order_before
        price == last.prices[o.symbol]
    IN  /\ last.how # "none"
        /\ o.status = "PENDING"
        /\ \/ price = None
           \/ /\ o.order_type = "LIMIT" /\ o.price # None /\ o.side = "BUY"
              /\ RLt(o.price, price)
           \/ /\ o.order_type = "LIMIT" /\ o.price # None /\ o.side = "SELL"
              /\ RLt(price, o.price)

Occurrences(seq, x) == Cardinality({j \in 1..Len(seq) : seq[j] = x})

ExecutedOnlyAsSubmitted ==
    \A e \in 1..Len(run.executed) :
        LET x == run.executed[e]
        IN  Occurrences(run.executed, x)
                <= Occurrences(run.submitted[x.call], x.oid)

C13_UnfilledIsNoOp ==
    /\ DoesNotFill =>
          /\ last.ret = "False"
          /\ last.order_after = last.order_before
          /\ last.pf_after = last.pf_before
          /\ last.trades_after = last.trades_before
          /\ last.orders_after = last.orders_before
    /\ ExecutedOnlyAsSubmitted

\* a limit sell above the market was left unfilled at an earlier row, with a
\* position open, and the run has ended with the order still PENDING
C13_Witness ==
    /\ DoesNotFill
    /\ last.order_before.order_type = "LIMIT"
    /\ last.order_before.side = "SELL"
    /\ last.pf_before.cash # last.pf_before.initial_capital
    /\ pc = "idle"
    /\ run.ret = "returned"
    /\ last.timestamp < data[Len(data)].timestamp
    /\ pool[last.oid].status = "PENDING"

(***************************************************************************)
(* C14 (failed preconditions): a run_backtest call on an engine without    *)
(* loaded data, or with dates that select no row, raises the ValueError of *)
(* that precondition and leaves the trade log, the order log, the history, *)
(* the portfolio, the risk manager, the prices and the results of an       *)
(* earlier run as they were.                                               *)
(***************************************************************************)
Untouched ==
    UNCHANGED <<trades, orders, portfolio_history, portfolio, risk_manager,
                current_prices, market_data, pool, results>>

C14_FailsBeforeMutating ==
    [][run'.n = run.n + 1 =>
          IF ~market_data.loaded
          THEN outcome' = "ValueError: Market data not loaded" /\ Untouched
          ELSE InRange(market_data.rows, run'.asked[1], run'.asked[2]) = <<>>
                  => /\ outcome' = "ValueError: No data in specified date range"
                     /\ Untouched]_<<vars, pvars, mvars>>

\* a call whose dates select no row, after a run that has returned with a
\* trade, an order and a history
C14_Witness ==
    /\ outcome = "ValueError: No data in specified date range"
    /\ run.ret = "returned"
    /\ run.asked # run.args
    /\ market_data.rows # <<>>
    /\ Len(trades) > 0
    /\ Len(orders) > 0
    /\ Len(portfolio_history) > 0
    /\ results.total_trades > 0

(***************************************************************************)
(* C15 (load_data of an empty table): load_data called with a table        *)
(* without rows fails and leaves the engine without loaded data, so an     *)
(* engine with loaded data has at least one row.                           *)
(***************************************************************************)
C15_EmptyLoadFails == market_data.loaded => market_data.rows # <<>>

(***************************************************************************)
(* C16 (a strategy error does not abort the run): whatever the rows at     *)
(* which generate_signals raises, run_backtest goes on with the next row   *)
(* and ends by returning, not by raising: a run in which the strategy has  *)
(* raised is never left by an exception, and once it is over the strategy  *)
(* has been called for every row of the date range, in order.              *)
(***************************************************************************)
StrategyHasRaised == \E k \in 1..Len(run.calls) : run.calls[k].out = "raise"

CalledForEveryRow ==
    /\ Len(run.calls) = Len(data)
    /\ \A k \in 1..Len(run.calls) : run.calls[k].timestamp = data[k].timestamp

C16_StrategyErrorDoesNotAbort ==
    StrategyHasRaised =>
        /\ run.ret # "raised"
        /\ pc = "idle" => run.ret \in {"returned", "returned {}"}
                             /\ CalledForEveryRow
        /\ pc # "idle" => outcome = "running" /\ Len(run.calls) \in {i - 1, i}

\* the strategy has raised at the first two rows of three, the third row has
\* been replayed and recorded, and the run has returned
C16_Witness ==
    /\ pc = "idle"
    /\ run.ret = "returned"
    /\ Len(run.calls) = 3
    /\ run.calls[1].out = "raise"
    /\ run.calls[2].out = "raise"
    /\ run.calls[3].out = "return"
    /\ Len(portfolio_history) = 1

(***************************************************************************)
(* C17 (full result bundle): a run_backtest call that has passed its       *)
(* preconditions and returned has returned the bundle of the nine entries, *)
(* built from the engine's portfolio and logs, whether or not a trade      *)
(* occurred.                                                               *)
(***************************************************************************)
RunHasReturned == pc = "idle" /\ run.ret \in {"returned", "returned {}"}

C17_FullBundle ==
    RunHasReturned =>
        /\ run.ret = "returned"
        /\ results.initial_capital = portfolio.initial_capital
        /\ results.final_value = portfolio.total_value
        /\ results.total_trades = Len(trades)
        /\ results.portfolio_history = portfolio_history
        /\ results.trades = trades
        /\ results.orders = orders

(***************************************************************************)
(* C18 (determinism): when two engines constructed with the same           *)
(* parameters have been given the same table, the same dates and the same  *)
(* lists of orders at the same rows, their first runs have gone through    *)
(* the same sequence of portfolio states and have returned in the same     *)
(* way, with the same trade log, history (returns included) and figures.   *)
(***************************************************************************)
SameAsTwin ==
    /\ twin.valid
    /\ pc = "idle"
    /\ run.n = 1
    /\ run.ret \in {"returned", "returned {}"}
    /\ run.table = twin.market_data
    /\ run.args = twin.args
    /\ run.calls = twin.calls

TotalValueAt(k) == portfolio_history[k].total_value

RunningPeak(k) ==
    CHOOSE p \in {TotalValueAt(j) : j \in 1..k} :
        \A j \in 1..k : RLe(TotalValueAt(j), p)

DrawdownAt(k) == RDiv(RSub(RunningPeak(k), TotalValueAt(k)), RunningPeak(k))

LargestDrawdown ==
    CHOOSE d \in {DrawdownAt(k) : k \in 1..Len(portfolio_history)} :
        \A k \in 1..Len(portfolio_history) : RLe(DrawdownAt(k), d)

RiseThenFall ==
    portfolio_history # <<>>
        /\ [k \in 1..Len(portfolio_history) |-> TotalValueAt(k)]
               = <<Q(100), Q(110), Q(120), Q(90)>>

C19_MaxDrawdown ==
    portfolio_history # <<>> =>
        /\ results.max_drawdown = LargestDrawdown
        /\ RLe(Zero, results.max_drawdown)
        /\ RiseThenFall => results.max_drawdown = Rat(1, 4)

\* the history of the claim's example
C19_Witness == RiseThenFall /\ results.max_drawdown = Rat(1, 4)

(***************************************************************************)
(* C20 (no look-ahead): at every row of a run generate_signals is called   *)
(* once, with the rows from the first row of the date range to the current *)
(* row and the current row's timestamp, never with a later row; an order   *)
(* is filled at the price of the row at which it is executed.              *)
(***************************************************************************)
RowAt(timestamp) == CHOOSE k \in 1..Len(data) : data[k].timestamp = timestamp

C20_NoLookAhead ==
    /\ pc # "idle" => Len(run.calls) \in {i - 1, i}
    /\ \A k \in 1..Len(run.calls) :
          /\ run.calls[k].out \in {"return", "raise"}
          /\ run.calls[k].hi = k
          /\ run.calls[k].timestamp = data[k].timestamp
    /\ (last.n = run.n /\ last.how = "filled") =>
          /\ last.prices[last.order_before.symbol]
                 = data[RowAt(last.timestamp)].close[last.order_before.symbol]
          /\ last.order_before.order_type = "MARKET" =>
                 last.order_after.filled_price
                     = data[RowAt(last.timestamp)].close[last.order_before.symbol]

(***************************************************************************)
(* C21 (no division by zero): no step of a run divides by zero: the risk   *)
(* check never takes its position weight over a total value of 0, neither  *)
(* the risk check nor update_risk_metrics takes the drawdown over a peak   *)
(* value of 0, and _calculate_returns never takes a return over a previous *)
(* total value of 0.                                                       *)
(***************************************************************************)
WeightOverZero == ReachedRiskCheck /\ last.pf_before.total_value.n = 0

C21_NoDivisionByZero ==
    /\ ~WeightOverZero
    /\ last.how # "raise"
    /\ outcome # "ZeroDivisionError"

(***************************************************************************)
(* C22 (peak tracking on every check): every call of check_order that      *)
(* returns, whether it approves the order or rejects it for position size, *)
(* margin or drawdown, leaves peak_value equal to the larger of the peak   *)
(* before the call and the portfolio's total value, and current_drawdown   *)
(* equal to (peak_value - total value) / peak_value.                       *)
(***************************************************************************)
CheckReturned == last.n > 0 /\ last.how \in {"approved", "rejected"}

C22_PeakTrackedOnEveryCheck ==
    CheckReturned =>
        LET peak == RMax(last.rm_before.peak_value, last.pf_before.total_value)
        IN  /\ last.rm_after.peak_value = peak
            /\ last.rm_after.current_drawdown =
                   RDiv(RSub(peak, last.pf_before.total_value), peak)

(***************************************************************************)
(* C23 (a close may be split): when the last fill has closed a part of a   *)
(* position, long or short, closing the rest at the same price brings the  *)
(* realized P&L to what a single fill closing the whole position at that   *)
(* price would have brought it to.                                         *)
(***************************************************************************)
PartialClose ==
    /\ plast.before.quantity # 0
    /\ plast.tq # 0
    /\ Sign(plast.tq) # Sign(plast.before.quantity)
    /\ Abs(plast.tq) < Abs(plast.before.quantity)

C23_SplitCloseRealizesTheSame ==
    PartialClose =>
        apply_trade(ppos, -ppos.quantity, plast.tp).realized_pnl
            = apply_trade(plast.before, -plast.before.quantity,
                          plast.tp).realized_pnl

(***************************************************************************)
(* C24 (a fill without costs keeps total value): on an engine without      *)
(* slippage, impact and commission, the portfolio a filled market order    *)
(* leaves, revalued at the prices of the fill, has the total value of the  *)
(* portfolio before the order revalued at the same prices, for buys and    *)
(* for sells, sells that open or extend a short position included.         *)
(***************************************************************************)
FilledMarketOrder ==
    /\ last.n > 0
    /\ last.how = "filled"
    /\ last.order_before.order_type = "MARKET"

C24_FillKeepsTotalValue ==
    (ZeroCosts /\ FilledMarketOrder) =>
        update_portfolio(last.pf_after, last.prices).total_value
            = update_portfolio(last.pf_before, last.prices).total_value

(***************************************************************************)
(* C25 (realized P&L aggregate): the realized_pnl that update_portfolio    *)
(* returns, stored in the history record of the row, is the sum of         *)
(* realized_pnl over every position of the portfolio, the positions that   *)
(* have been closed included.                                              *)
(***************************************************************************)
RecordAppended == Len(portfolio_history') = Len(portfolio_history) + 1

C25_RealizedAggregateIsWhole ==
    [][RecordAppended =>
          portfolio_history'[Len(portfolio_history')].realized_pnl
              = SumOver([s \in DOMAIN portfolio'.positions |->
                            portfolio'.positions[s].realized_pnl],
                        DOMAIN portfolio'.positions)]_<<vars, pvars, mvars>>

(***************************************************************************)
(* C26 (aggregates are written by revaluation only): total_value,          *)
(* margin_used and margin_available change only when update_portfolio      *)
(* runs (or a new engine is constructed); a call of execute_order, whether *)
(* it fills, rejects or does not fill the order, leaves all three as they  *)
(* were, so that within a row every order is checked against the           *)
(* aggregates of the last history record, whatever was filled before it in *)
(* the same row.                                                           *)
(***************************************************************************)
Aggregates(pf) == <<pf.total_value, pf.margin_used, pf.margin_available>>

LastRecordAggregates ==
    LET rec == portfolio_history[Len(portfolio_history)]
    IN  <<rec.total_value, rec.margin_used, rec.margin_available>>

C26_AggregatesOnlyRevalued ==
    [][/\ Aggregates(portfolio') # Aggregates(portfolio)
              => (pc = "orders" /\ queue = <<>>)
                     \/ used'.engines # used.engines
       /\ (pc = "orders" /\ queue # <<>>)
              => /\ Aggregates(portfolio') = Aggregates(portfolio)
                 /\ portfolio_history # <<>>
                        => Aggregates(portfolio) = LastRecordAggregates
      ]_<<vars, pvars, mvars>>

\* an order is filled after an earlier fill of the same row has changed cash
C26_Witness ==
    /\ last.n = run.n
    /\ last.how = "filled"
    /\ last.history_before # <<>>
    /\ last.pf_before.cash
           # last.history_before[Len(last.history_before)].cash
    /\ last.pf_after.cash # last.pf_before.cash
    /\ Aggregates(last.pf_after) = Aggregates(last.pf_before)
    /\ last.pf_before.total_value
           = last.history_before[Len(last.history_before)].total_value

(***************************************************************************)
(* C27 (drawdown lockout): an order that reaches the risk check while      *)
(* (peak_value - total value) / peak_value, the peak brought up to the     *)
(* total value, is above max_drawdown is not filled, whatever its side and *)
(* size; when its weight and the margin let it reach the drawdown test it  *)
(* is rejected: status REJECTED, cash, position and trade log as before.   *)
(* This includes the orders that would reduce or close a position.         *)
(***************************************************************************)
PeakSeen == RMax(last.rm_before.peak_value, last.pf_before.total_value)

OverDrawdown ==
    /\ last.n > 0
    /\ ReachedRiskCheck
    /\ PeakSeen.n # 0
    /\ RLt(last.rm_before.max_drawdown,
           RDiv(RSub(PeakSeen, last.pf_before.total_value), PeakSeen))

ReachedDrawdownTest ==
    /\ ReachedRiskCheck
    /\ last.pf_before.total_value.n # 0
    /\ ~Overweight
    /\ last.pf_before.margin_available.n >= 0

C27_DrawdownLockout ==
    OverDrawdown =>
        /\ last.how # "filled"
        /\ ReachedDrawdownTest =>
              /\ last.how = "rejected"
              /\ last.order_after.status = "REJECTED"
              /\ last.pf_after.cash = last.pf_before.cash
              /\ PositionKept
              /\ last.trades_after = last.trades_before

\* the order that would close the losing position is rejected
C27_Witness ==
    /\ OverDrawdown
    /\ ReachedDrawdownTest
    /\ last.how = "rejected"
    /\ last.order_before.side = "SELL"
    /\ get_position(last.pf_before.positions, last.order_before.symbol).quantity
           = last.order_before.quantity

(***************************************************************************)
(* C28 (reversal): a fill of the sign opposite to the position's, larger   *)
(* in size than the position, adds (trade price - average price) x prior   *)
(* quantity to realized_pnl, and leaves a position in the opposite         *)
(* direction whose quantity is trade quantity + prior quantity and whose   *)
(* average price is the trade price.                                       *)
(***************************************************************************)
Reversal ==
    /\ plast.before.quantity # 0
    /\ plast.tq # 0
    /\ Sign(plast.tq) # Sign(plast.before.quantity)
    /\ Abs(plast.tq) > Abs(plast.before.quantity)

C28_Reversal ==
    Reversal =>
        /\ ppos.realized_pnl =
               RAdd(plast.before.realized_pnl,
                    RMul(RSub(plast.tp, plast.before.avg_price),
                         Q(plast.before.quantity)))
        /\ ppos.quantity = plast.tq + plast.before.quantity
        /\ Sign(ppos.quantity) = -Sign(plast.before.quantity)
        /\ ppos.avg_price = plast.tp

\* a short of 1 at 8 is turned into a long of 1 by a buy of 2 at 10
C28_Witness ==
    /\ Reversal
    /\ plast.before.quantity = -1
    /\ plast.before.avg_price = Q(8)
    /\ plast.tq = 2
    /\ plast.tp = Q(10)
    /\ ppos.realized_pnl = RAdd(plast.before.realized_pnl, Q(-2))
    /\ ppos.quantity = 1

(***************************************************************************)
(* C29 (adding): a fill of the position's own sign realizes nothing and    *)
(* conserves the cost basis: the new quantity is the old quantity plus the *)
(* trade quantity, and new quantity x new average price = old quantity x   *)
(* old average price + trade quantity x trade price.                       *)
(***************************************************************************)
Adding ==
    /\ plast.before.quantity # 0
    /\ plast.tq # 0
    /\ Sign(plast.tq) = Sign(plast.before.quantity)

C29_AddingConservesCost ==
    Adding =>
        /\ ppos.quantity = plast.before.quantity + plast.tq
        /\ RMul(Q(ppos.quantity), ppos.avg_price) =
               RAdd(RMul(Q(plast.before.quantity), plast.before.avg_price),
                    RMul(Q(plast.tq), plast.tp))
        /\ ppos.realized_pnl = plast.before.realized_pnl

\* a short of 2 at 8 is extended by 1 at 12: the average price is 28/3
C29_Witness ==
    /\ Adding
    /\ plast.before.quantity = -2
    /\ plast.before.avg_price = Q(8)
    /\ plast.tq = -1
    /\ plast.tp = Q(12)
    /\ ppos.avg_price = Rat(28, 3)

(***************************************************************************)
(* C30 (revaluation is a mark-to-market): the step that revalues the       *)
(* portfolio leaves cash as it was; for every position with a quantity     *)
(* other than 0 whose symbol has a price, it leaves quantity, average      *)
(* price and realized_pnl as they were and sets market_value =             *)
(* quantity x price and unrealized_pnl = (price - average price) x         *)
(* quantity; every other position is left as it was.                       *)
(***************************************************************************)
Revalues == pc = "orders" /\ queue = <<>>

MarkedToMarket(before, after, price) ==
    /\ after.quantity = before.quantity
    /\ after.avg_price = before.avg_price
    /\ after.realized_pnl = before.realized_pnl
    /\ after.market_value = RMul(Q(before.quantity), price)
    /\ after.unrealized_pnl =
           RMul(RSub(price, before.avg_price), Q(before.quantity))

C30_RevaluationIsMarkToMarket ==
    [][Revalues =>
          /\ portfolio'.cash = portfolio.cash
          /\ DOMAIN portfolio'.positions = DOMAIN portfolio.positions
          /\ \A s \in DOMAIN portfolio.positions :
                IF portfolio.positions[s].quantity # 0 /\ current_prices[s] # None
                THEN MarkedToMarket(portfolio.positions[s],
                                    portfolio'.positions[s], current_prices[s])
                ELSE portfolio'.positions[s] = portfolio.positions[s]
      ]_<<vars, pvars, mvars>>

\* a row has been recorded with an open position marked at a price other
\* than its average price, beside a position with quantity 0
C30_Witness ==
    /\ pc \in {"signals", "finish"}
    /\ portfolio_history # <<>>
    /\ portfolio_history[Len(portfolio_history)].timestamp = data[Len(run.calls)].timestamp
    /\ \E s \in DOMAIN portfolio.positions :
          /\ portfolio.positions[s].quantity # 0
          /\ portfolio.positions[s].unrealized_pnl # Zero
          /\ portfolio.positions[s].market_value =
                 RMul(Q(portfolio.positions[s].quantity), current_prices[s])
    /\ \E s \in DOMAIN portfolio.positions : portfolio.positions[s].quantity = 0

(***************************************************************************)
(* C31 (aggregates of a revaluation): the step that revalues the portfolio *)
(* leaves total_value = cash + the sum of |market_value| over the          *)
(* positions held (quantity other than 0), margin_used = that sum /        *)
(* leverage and margin_available = cash - margin_used, and the history     *)
(* record it appends carries these values.                                 *)
(***************************************************************************)
HeldValue(pf) ==
    LET held == {s \in DOMAIN pf.positions : pf.positions[s].quantity # 0}
    IN  SumOver([s \in held |-> RAbs(pf.positions[s].market_value)], held)

AggregatesConsistent(pf) ==
    /\ pf.total_value = RAdd(pf.cash, HeldValue(pf))
    /\ pf.margin_used = RDiv(HeldValue(pf), pf.leverage)
    /\ pf.margin_available = RSub(pf.cash, pf.margin_used)

C31_AggregatesOfRevaluation ==
    [][/\ Revalues => AggregatesConsistent(portfolio')
       /\ RecordAppended =>
             LET rec == portfolio_history'[Len(portfolio_history')]
             IN  /\ rec.cash = portfolio'.cash
                 /\ rec.market_value = HeldValue(portfolio')
                 /\ rec.total_value = portfolio'.total_value
                 /\ rec.margin_used = portfolio'.margin_used
                 /\ rec.margin_available = portfolio'.margin_available
                 /\ rec.total_value = RAdd(rec.cash, rec.market_value)
      ]_<<vars, pvars, mvars>>

\* a row has been recorded while a short position is held
C31_Witness ==
    /\ pc \in {"signals", "finish"}
    /\ portfolio_history # <<>>
    /\ portfolio_history[Len(portfolio_history)].timestamp
           = data[Len(run.calls)].timestamp
    /\ \E s \in DOMAIN portfolio.positions :
          /\ portfolio.positions[s].quantity < 0
          /\ portfolio.positions[s].market_value.n < 0
    /\ AggregatesConsistent(portfolio)
    /\ portfolio_history[Len(portfolio_history)].total_value
           = portfolio.total_value

(***************************************************************************)
(* C32 (fill-price resolution): for an order whose symbol has a price, a   *)
(* MARKET, STOP or STOP_LIMIT order resolves to the current price; a LIMIT *)
(* buy resolves to its limit price exactly when the current price is at    *)
(* most the limit, a LIMIT sell exactly when it is at least the limit; a   *)
(* LIMIT order otherwise, or without a limit price, does not fill.  An     *)
(* order that resolves and is approved gets the resolved price as          *)
(* filled_price.                                                           *)
(***************************************************************************)
Priced == last.n > 0 /\ last.how \in {"unfilled", "rejected", "filled", "raise"}

LimitCrossed ==
    LET o == last.order_before
        cp == last.prices[o.symbol]
    IN  /\ o.price # None
        /\ IF o.side = "BUY" THEN RLe(cp, o.price) ELSE RLe(o.price, cp)

Resolves == last.order_before.order_type = "LIMIT" => LimitCrossed

ResolvedPrice ==
    IF last.order_before.order_type = "LIMIT" THEN last.order_before.price
    ELSE last.prices[last.order_before.symbol]

C32_FillPriceResolution ==
    Priced =>
        /\ last.how = "unfilled" <=> ~Resolves
        /\ last.how = "filled" => last.order_after.filled_price = ResolvedPrice

\* a STOP order is filled at the current price, which is not its own price
C32_Witness ==
    /\ Priced
    /\ last.how = "filled"
    /\ last.order_before.order_type \in {"STOP", "STOP_LIMIT"}
    /\ last.order_before.price # last.prices[last.order_before.symbol]
    /\ last.order_after.filled_price = last.prices[last.order_before.symbol]

(***************************************************************************)
(* C33 (cash and records of a fill): an approved fill of quantity q at     *)
(* effective price p with commission c takes q x p + c from cash for a buy *)
(* and adds q x p - c to it for a sell, appends one trade record, carrying *)
(* p, c and, as cash_after, the cash the fill leaves, and leaves the order *)
(* FILLED with filled_quantity q and the timestamp of the row.             *)
(***************************************************************************)
Filled == last.n > 0 /\ last.how = "filled"

TradeOfLast == last.trades_after[Len(last.trades_after)]

C33_CashAndRecordsOfFill ==
    Filled =>
        LET o == last.order_after
            rec == TradeOfLast
            value == RMul(Q(o.quantity), rec.price)
        IN  /\ last.pf_after.cash =
                   IF o.side = "BUY"
                   THEN RSub(last.pf_before.cash, RAdd(value, rec.commission))
                   ELSE RAdd(last.pf_before.cash, RSub(value, rec.commission))
            /\ last.trades_after = Append(last.trades_before, rec)
            /\ rec.cash_after = last.pf_after.cash
            /\ rec.commission = o.commission
            /\ rec.quantity = o.quantity
            /\ rec.timestamp = last.timestamp
            /\ o.status = "FILLED"
            /\ o.filled_quantity = Q(o.quantity)
            /\ o.timestamp = last.timestamp

\* a sell is filled on the engine with costs
C33_Witness ==
    /\ Filled
    /\ last.order_after.side = "SELL"
    /\ last.order_after.commission.n > 0
    /\ TradeOfLast.cash_after = last.pf_after.cash
    /\ RLt(last.pf_before.cash, last.pf_after.cash)

(***************************************************************************)
(* C34 (slippage is adverse): on an engine whose slippage rate and impact  *)
(* coefficient are not negative, the price of every trade record is at     *)
(* least the resolved fill price for a buy and at most the resolved fill   *)
(* price for a sell, and the position is updated at the price of the       *)
(* trade record.                                                           *)
(***************************************************************************)
AdversePrice(rec, fill_price) ==
    IF rec.side = "BUY" THEN RLe(fill_price, rec.price)
    ELSE RLe(rec.price, fill_price)

C34_SlippageIsAdverse ==
    Filled =>
        LET sym == last.order_before.symbol
            before == get_position(last.pf_before.positions, sym)
            tq == IF last.order_before.side = "BUY"
                  THEN last.order_before.quantity
                  ELSE -last.order_before.quantity
        IN  /\ AdversePrice(TradeOfLast, last.order_after.filled_price)
            /\ last.pf_after.positions[sym] =
                   update_position(before, tq, TradeOfLast.price,
                                   last.prices[sym])

\* a buy pays more and a later sell receives less than the resolved price
C34_Witness ==
    /\ Filled
    /\ Len(last.trades_after) >= 2
    /\ \E k \in 1..(Len(last.trades_after) - 1) :
          /\ last.trades_after[k].side = "BUY"
          /\ last.trades_after[k].slippage.n > 0
    /\ TradeOfLast.side = "SELL"
    /\ RLt(TradeOfLast.price, last.order_after.filled_price)

(***************************************************************************)
(* C35 (returns post-pass): when run_backtest has returned, the first      *)
(* history record has returns 0 and every later record k has               *)
(* returns x total_value[k-1] = total_value[k] - total_value[k-1]; the     *)
(* pass that computes them changes nothing else of any record.             *)
(***************************************************************************)
ReturnsOf(h) ==
    /\ h # <<>> => h[1].returns = Zero
    /\ \A k \in 2..Len(h) :
          RMul(h[k].returns, h[k - 1].total_value)
              = RSub(h[k].total_value, h[k - 1].total_value)

C35_ReturnsPostPass ==
    [][(pc = "finish" /\ run'.ret \in {"returned", "returned {}"}) =>
          /\ ReturnsOf(portfolio_history')
          /\ Len(portfolio_history') = Len(portfolio_history)
          /\ \A k \in 1..Len(portfolio_history) :
                [portfolio_history'[k] EXCEPT !.returns = Zero]
                    = portfolio_history[k]
      ]_<<vars, pvars, mvars>>

\* a run has returned with a gain and a loss in its history
C35_Witness ==
    /\ pc = "idle"
    /\ run.ret = "returned"
    /\ Len(portfolio_history) >= 3
    /\ \E k \in 2..Len(portfolio_history) : portfolio_history[k].returns.n > 0
    /\ \E k \in 2..Len(portfolio_history) : portfolio_history[k].returns.n < 0
    /\ ReturnsOf(portfolio_history)

(***************************************************************************)
(* C36 (cash stays positive): on an engine with leverage 1 and a           *)
(* max_position_size in (0, 1], whose strategy has constructed buy orders  *)
(* only, cash is never negative.                                           *)
(***************************************************************************)
BuysOnly == \A k \in 1..Len(pool) : pool[k].side = "BUY"

C36_CashNeverNegative ==
    (/\ portfolio.leverage = Q(1)
     /\ risk_manager.max_position_size.n > 0
     /\ RLe(risk_manager.max_position_size, Q(1))
     /\ BuysOnly)
        => portfolio.cash.n >= 0

(***************************************************************************)
(* C37 (a flat position is worth nothing): whenever the quantity of a      *)
(* position is 0, after any sequence of fills and revaluations, its        *)
(* market_value and its unrealized_pnl are 0.                              *)
(***************************************************************************)
C37_FlatPositionIsZero ==
    ppos.quantity = 0 =>
        /\ ppos.market_value = Zero
        /\ ppos.unrealized_pnl = Zero

(***************************************************************************)
(* C38 (order log and trade log agree): when run_backtest has returned,    *)
(* the order log and the trade log have the same length, the k-th trade    *)
(* record is that of the fill of the k-th logged order (its symbol, side,  *)
(* quantity, timestamp, commission and slippage, at the order's fill price *)
(* with the slippage against it), and every logged order is FILLED with    *)
(* filled_quantity equal to its quantity.                                  *)
(***************************************************************************)
RunHasEnded == pc = "idle" /\ run.ret \in {"returned", "returned {}"}

DescribesFill(rec, o) ==
    /\ rec.symbol = o.symbol
    /\ rec.side = o.side
    /\ rec.quantity = o.quantity
    /\ rec.timestamp = o.timestamp
    /\ rec.commission = o.commission
    /\ rec.slippage = o.slippage
    /\ rec.price = IF o.side = "BUY" THEN RAdd(o.filled_price, o.slippage)
                   ELSE RSub(o.filled_price, o.slippage)

C38_OrderLogMatchesTradeLog ==
    RunHasEnded =>
        /\ Len(orders) = Len(trades)
        /\ \A k \in 1..Len(orders) :
              /\ k <= Len(trades) => DescribesFill(trades[k], pool[orders[k]])
              /\ pool[orders[k]].status = "FILLED"
              /\ pool[orders[k]].filled_quantity = Q(pool[orders[k]].quantity)

(***************************************************************************)
(* C39 (the peak only rises): no step of an engine lowers the risk         *)
(* manager's peak_value, within a run or between runs; the step that       *)
(* records a row leaves peak_value at or above the portfolio's total value *)
(* and current_drawdown at or above 0, and the record carries these two    *)
(* values.                                                                 *)
(***************************************************************************)
C39_PeakOnlyRises ==
    [][/\ used'.engines = used.engines
              => RLe(risk_manager.peak_value, risk_manager'.peak_value)
       /\ RecordAppended =>
             LET rec == portfolio_history'[Len(portfolio_history')]
             IN  /\ RLe(portfolio'.total_value, risk_manager'.peak_value)
                 /\ risk_manager'.current_drawdown.n >= 0
                 /\ rec.peak_value = risk_manager'.peak_value
                 /\ rec.current_drawdown = risk_manager'.current_drawdown
      ]_<<vars, pvars, mvars>>

\* a row has been recorded with the total value under the peak
C39_Witness ==
    /\ pc \in {"signals", "finish"}
    /\ portfolio_history # <<>>
    /\ portfolio_history[Len(portfolio_history)].timestamp
           = data[Len(run.calls)].timestamp
    /\ portfolio_history[Len(portfolio_history)].current_drawdown.n > 0
    /\ RLt(portfolio.total_value, risk_manager.peak_value)
    /\ portfolio_history[Len(portfolio_history)].peak_value
           = risk_manager.peak_value


(***************************************************************************)
(* C40 (a new holding starts its trailing stop afresh): in the risk        *)
(* monitor of src/risk_manager.py, when a symbol's weight has gone to 0    *)
(* and the symbol is entered again, the next update_stop_loss_levels sets  *)
(* its trailing stop from the current price, as it does for a symbol it    *)
(* sees for the first time (the trailing stop starts at the fixed stop);   *)
(* the trailing stop of the earlier holding is not carried over.           *)
(***************************************************************************)
C40_TrailingStopStartsAfresh ==
    [][mcalls'.stops # mcalls.stops =>
          \A s \in reopened \cap watched(monitor) :
              monitor'.stop_loss_levels[s].trailing_stop
                  = monitor'.stop_loss_levels[s].fixed_stop
      ]_<<vars, pvars, mvars>>

=============================================================================
